---- MODULE Spec2Model ----
(***************************************************************************)
(* Process-standards qualification engine of baijiu_analysis               *)
(* (src/utils/process_analysis.py): the range check, the per-indicator     *)
(* analysis, the cross-indicator report and the overall summary.           *)
(*                                                                         *)
(* Numbers: measurements and bounds are floats in the source and only      *)
(* compared, counted and divided; the model holds them in tenths (1.5 is   *)
(* 15) and draws them from small ranges.  A missing reading (NaN / NULL)   *)
(* and an absent bound (None) are                                          *)
(* the empty tuple, a present number x is the 1-tuple <<x>>.               *)
(* Rates: a full-precision rate is an exact fraction <<num, den>> in       *)
(* lowest terms; a rate rounded to 2 decimals is an integer number of      *)
(* hundredths of a percent (76.67 is 7667).                                *)
(***************************************************************************)
EXTENDS Integers, Sequences, FiniteSets, TLC

VARIABLES df, standards, call, config_file, page, session

vars == <<df, standards, call, config_file, page, session>>

(* ------------------------------ bounds -------------------------------- *)

\* arguments of the pure range check are drawn from 0..MaxArg
MaxArg == 4

\* readings of a dataset in the single-indicator specification are missing
\* or in 0..MaxVal
MaxVal == 1

\* configured bounds are absent or in 0..MaxBound
MaxBound == 1

\* rows of a dataset in the single-indicator specification
MaxRows == 2

\* rows of a dataset in the report specification
MaxRowsAll == 1

\* readings of a dataset in the report specification: missing or in
\* 0..MaxValAll
MaxValAll == 0

\* the standards of the report specification have at most MaxEnabled
\* indicators enabled, or at most MaxDisabled disabled
MaxEnabled == 0

MaxDisabled == 1

\* largest row label of a dataset that was filtered or reordered
MaxLabel == 2

\* items selected in one filter of the form
MaxSelected == 2

(* --------------------------- optional numbers ------------------------- *)

NaN == <<>>

None == <<>>

Some(x) == <<x>>

Opt(S) == {<<>>} \cup {<<x>> : x \in S}

\* pd.isna(value)
isna(value) == value = NaN

(* ----------------------------- range check ---------------------------- *)

\* the range check with exclusive bounds (a value on a bound is abnormal)
check_value_in_range_Strict(value, min_val, max_val) ==
    IF isna(value) THEN TRUE
    ELSE IF min_val # None /\ value[1] <= min_val[1] THEN FALSE
    ELSE IF max_val # None /\ value[1] >= max_val[1] THEN FALSE
    ELSE TRUE

\* the range check without the missing-value early return: a missing value
\* is abnormal as soon as a bound is configured
check_value_in_range_NoNa(value, min_val, max_val) ==
    IF min_val # None /\ (isna(value) \/ value[1] < min_val[1]) THEN FALSE
    ELSE IF max_val # None /\ (isna(value) \/ value[1] > max_val[1]) THEN FALSE
    ELSE TRUE

check_value_in_range(value, min_val, max_val) ==
    IF isna(value) THEN TRUE
    ELSE IF min_val # None /\ value[1] < min_val[1] THEN FALSE
    ELSE IF max_val # None /\ value[1] > max_val[1] THEN FALSE
    ELSE TRUE

(* ---------------------- dictionaries and datasets --------------------- *)

\* A Python dict (insertion-ordered, as json.load builds it) is a sequence of
\* <<key, value>> pairs with distinct keys.
HasKey(d, k) == \E i \in DOMAIN d : d[i][1] = k

Get(d, k) == d[CHOOSE i \in DOMAIN d : d[i][1] = k][2]

Keys(d) == [i \in DOMAIN d |-> d[i][1]]

\* A DataFrame is [columns |-> sequence of column names, index |-> sequence
\* of distinct row labels, rows |-> sequence of rows], a row being a function
\* from the column names to the cells (optional numbers in a dataset).
\* pd.DataFrame()
EmptyDf == [columns |-> <<>>, index |-> <<>>, rows |-> <<>>]

HasColumn(frame, field) == \E i \in DOMAIN frame.columns : frame.columns[i] = field

\* df[field].dropna().tolist()
dropna_tolist(frame, field) ==
    LET column == [r \in DOMAIN frame.rows |-> frame.rows[r][field]]
    IN  SelectSeq(column, LAMBDA v : ~isna(v))

RECURSIVE gcd(_, _)
gcd(a, b) == IF b = 0 THEN a ELSE gcd(b, a % b)

\* the float n / d as an exact fraction in lowest terms (d > 0)
Frac(n, d) == <<n \div gcd(n, d), d \div gcd(n, d)>>

\* 0.0
Zero == <<0, 1>>

\* round(x, 2) of x = <<n, d>>, in hundredths: the nearest hundredth, a tie
\* going to the even one (Python rounds the float half-to-even)
round2(x) ==
    LET n == x[1] * 100
        d == x[2]
        q == n \div d
        r == n % d
    IN  IF 2 * r < d THEN q
        ELSE IF 2 * r > d THEN q + 1
        ELSE IF q % 2 = 0 THEN q ELSE q + 1

(* ---------------------------- the catalog ----------------------------- *)

INDICATOR_FIELDS ==
    [entry |->
        [moisture |-> <<"entry_moisture_upper", "entry_moisture_lower">>,
         alcohol  |-> <<"entry_alcohol_upper", "entry_alcohol_lower">>,
         acidity  |-> <<"entry_acidity_upper", "entry_acidity_lower">>,
         starch   |-> <<"entry_starch_upper", "entry_starch_lower">>,
         sugar    |-> <<"entry_sugar_upper", "entry_sugar_lower">>],
     exit |->
        [moisture |-> <<"exit_moisture_upper", "exit_moisture_lower">>,
         alcohol  |-> <<"exit_alcohol_upper", "exit_alcohol_lower">>,
         acidity  |-> <<"exit_acidity_upper", "exit_acidity_lower">>,
         starch   |-> <<"exit_starch_upper", "exit_starch_lower">>,
         sugar    |-> <<"exit_sugar_upper", "exit_sugar_lower">>],
     temperature |->
        [grains_entry_temp |-> <<"grains_entry_temp">>,
         temp_rise_range   |-> <<"temp_rise_range">>,
         distillation_temp |-> <<"distillation_temp">>]]

\* the Chinese display names, transliterated
INDICATOR_NAMES_CN ==
    [moisture |-> "shuifen", alcohol |-> "jiufen", acidity |-> "suandu",
     starch |-> "dianfen", sugar |-> "huanyuantang",
     grains_entry_temp |-> "ruchi wendu", temp_rise_range |-> "shengwen fudu",
     distillation_temp |-> "liujiu wendu"]

\* raise KeyError
KeyError == [raised |-> "KeyError"]

Raised(r) == "raised" \in DOMAIN r

(* ----------------------- analyze_single_indicator --------------------- *)

\* all_values built without dropna(): missing readings stay in the pool
RECURSIVE all_values_of_KeepNa(_, _)
all_values_of_KeepNa(frame, fields) ==
    IF fields = <<>> THEN <<>>
    ELSE (IF HasColumn(frame, Head(fields))
          THEN [r \in DOMAIN frame.rows |-> frame.rows[r][Head(fields)]] ELSE <<>>)
         \o all_values_of_KeepNa(frame, Tail(fields))

\* the pool is built only when every mapped field is in the dataset
all_values_of_AllOrNothing(frame, fields) ==
    IF \E f \in DOMAIN fields : ~HasColumn(frame, fields[f]) THEN <<>>
    ELSE SelectSeq(all_values_of_KeepNa(frame, fields), LAMBDA v : v # NaN)

\* all_values: the non-missing values of the fields present in the dataset,
\* field after field
RECURSIVE all_values_of(_, _)
all_values_of(frame, fields) ==
    IF fields = <<>> THEN <<>>
    ELSE (IF HasColumn(frame, Head(fields))
          THEN dropna_tolist(frame, Head(fields)) ELSE <<>>)
         \o all_values_of(frame, Tail(fields))

\* an empty pool reported like a disabled indicator
analysis_of_EmptyAsDisabled(all_values, min_val, max_val) ==
    IF all_values = <<>>
    THEN [enabled |-> FALSE, total_count |-> 0, qualified_count |-> 0,
          abnormal_count |-> 0, qualification_rate |-> Zero]
    ELSE LET total_count == Len(all_values)
             qualified_count ==
                 Cardinality({i \in DOMAIN all_values :
                                check_value_in_range(all_values[i], min_val, max_val)})
         IN  [enabled |-> TRUE, total_count |-> total_count,
              qualified_count |-> qualified_count,
              abnormal_count |-> total_count - qualified_count,
              qualification_rate |-> Frac(qualified_count * 100, total_count),
              min_standard |-> min_val, max_standard |-> max_val]

\* the body of analyze_single_indicator after the dataset scan, from the
\* pooled values
analysis_of(all_values, min_val, max_val) ==
    IF all_values = <<>>
    THEN [enabled |-> TRUE, total_count |-> 0, qualified_count |-> 0,
          abnormal_count |-> 0, qualification_rate |-> Zero,
          min_standard |-> min_val, max_standard |-> max_val]
    ELSE LET total_count == Len(all_values)
             qualified_count ==
                 Cardinality({i \in DOMAIN all_values :
                                check_value_in_range(all_values[i], min_val, max_val)})
             abnormal_count == total_count - qualified_count
             qualification_rate ==
                 IF total_count > 0 THEN Frac(qualified_count * 100, total_count)
                 ELSE Zero
         IN  [enabled |-> TRUE, total_count |-> total_count,
              qualified_count |-> qualified_count,
              abnormal_count |-> abnormal_count,
              qualification_rate |-> qualification_rate,
              min_standard |-> min_val, max_standard |-> max_val]

\* analyze_single_indicator counting the qualified values over the raw
\* columns, missing readings included (they pass the range check)
analyze_single_indicator_CountsNa(frame, direction, indicator, stds) ==
    IF ~HasKey(stds, direction) THEN KeyError
    ELSE IF ~HasKey(Get(stds, direction), indicator) THEN KeyError
    ELSE LET std == Get(Get(stds, direction), indicator)
         IN  IF ~std.enabled
             THEN [enabled |-> FALSE, total_count |-> 0, qualified_count |-> 0,
                   abnormal_count |-> 0, qualification_rate |-> Zero]
             ELSE IF direction \notin DOMAIN INDICATOR_FIELDS THEN KeyError
             ELSE IF indicator \notin DOMAIN INDICATOR_FIELDS[direction] THEN KeyError
             ELSE LET fields == INDICATOR_FIELDS[direction][indicator]
                      res == analysis_of(all_values_of(frame, fields), std.min, std.max)
                      q == Len(all_values_of_KeepNa(frame, fields))
                           - res.abnormal_count
                  IN  IF res.total_count = 0 THEN res
                      ELSE [res EXCEPT !.qualified_count = q,
                                       !.abnormal_count = res.total_count - q]

\* analyze_single_indicator scanning the dataset before looking at the
\* enabled flag: a disabled indicator gets its counts like an enabled one
analyze_single_indicator_ScansDisabled(frame, direction, indicator, stds) ==
    IF ~HasKey(stds, direction) THEN KeyError
    ELSE IF ~HasKey(Get(stds, direction), indicator) THEN KeyError
    ELSE IF direction \notin DOMAIN INDICATOR_FIELDS THEN KeyError
    ELSE IF indicator \notin DOMAIN INDICATOR_FIELDS[direction] THEN KeyError
    ELSE LET std == Get(Get(stds, direction), indicator)
             res == analysis_of(all_values_of(frame, INDICATOR_FIELDS[direction][indicator]),
                                std.min, std.max)
         IN  IF std.enabled THEN res
             ELSE [enabled |-> FALSE, total_count |-> res.total_count,
                   qualified_count |-> res.qualified_count,
                   abnormal_count |-> res.abnormal_count,
                   qualification_rate |-> res.qualification_rate]

\* analyze_single_indicator without the early return on the enabled flag:
\* every configured indicator is analysed as an enabled one
analyze_single_indicator_IgnoresEnabled(frame, direction, indicator, stds) ==
    IF ~HasKey(stds, direction) THEN KeyError
    ELSE IF ~HasKey(Get(stds, direction), indicator) THEN KeyError
    ELSE IF direction \notin DOMAIN INDICATOR_FIELDS THEN KeyError
    ELSE IF indicator \notin DOMAIN INDICATOR_FIELDS[direction] THEN KeyError
    ELSE LET std == Get(Get(stds, direction), indicator)
         IN  analysis_of(all_values_of(frame, INDICATOR_FIELDS[direction][indicator]),
                         std.min, std.max)

analyze_single_indicator(frame, direction, indicator, stds) ==
    IF ~HasKey(stds, direction) THEN KeyError
    ELSE IF ~HasKey(Get(stds, direction), indicator) THEN KeyError
    ELSE LET std == Get(Get(stds, direction), indicator)
         IN  IF ~std.enabled
             THEN [enabled |-> FALSE, total_count |-> 0, qualified_count |-> 0,
                   abnormal_count |-> 0, qualification_rate |-> Zero]
             ELSE IF direction \notin DOMAIN INDICATOR_FIELDS THEN KeyError
             ELSE IF indicator \notin DOMAIN INDICATOR_FIELDS[direction] THEN KeyError
             ELSE analysis_of(all_values_of(frame, INDICATOR_FIELDS[direction][indicator]),
                              std.min, std.max)

(* ------------------------- get_abnormal_records ----------------------- *)

\* the identifying columns kept in the result
ID_COLUMNS == <<"production_date", "round_number", "pit_no", "workshop", "team_name">>

\* raise IndexingError (an unalignable boolean Series used as indexer)
IndexingError == [raised |-> "IndexingError"]

\* RangeIndex(len(df)), the index of pd.Series([False] * len(df))
RangeIndex(n) == [i \in 1..n |-> i - 1]

\* the set of labels of an index
Labels(index) == {index[i] : i \in DOMAIN index}

\* a row counts as abnormal only when every mapped field present fails
abnormal_at_AllFields(frame, fields, min_val, max_val, r) ==
    /\ \E f \in DOMAIN fields : HasColumn(frame, fields[f])
    /\ \A f \in DOMAIN fields :
          HasColumn(frame, fields[f]) =>
              ~check_value_in_range(frame.rows[r][fields[f]], min_val, max_val)

\* abnormal_mask after the loop over the fields, at the row in position r.
\* The mask starts as False over RangeIndex(len(df)); mask | field_abnormal
\* aligns the two on the union of their labels when their indexes differ:
\* a label the mask lacks is NaN on the left of the first OR, which gives
\* False whatever the field says; after that OR the mask has every label
\* of df, and the later fields are ORed in as they are.
abnormal_at(frame, fields, min_val, max_val, r) ==
    LET present == SelectSeq(fields, LAMBDA f : HasColumn(frame, f))
    IN  \E f \in DOMAIN present :
            /\ ~check_value_in_range(frame.rows[r][present[f]], min_val, max_val)
            /\ (f = 1 => frame.index[r] \in Labels(RangeIndex(Len(frame.rows))))

\* the positions pos in the order of their row labels
SortedByLabel(frame, pos) ==
    CHOOSE s \in [DOMAIN pos -> {pos[n] : n \in DOMAIN pos}] :
        /\ \A i, j \in DOMAIN pos : s[i] = s[j] => i = j
        /\ \A i, j \in DOMAIN pos : i < j => frame.index[s[i]] < frame.index[s[j]]

\* the selected rows come in the order of their labels
take_SortedByLabel(frame, pos, cols) ==
    [columns |-> cols,
     index |-> [n \in DOMAIN pos |-> frame.index[SortedByLabel(frame, pos)[n]]],
     rows |-> [n \in DOMAIN pos |->
                 [c \in {cols[i] : i \in DOMAIN cols} |->
                     frame.rows[SortedByLabel(frame, pos)[n]][c]]]]

\* the selected rows with every column of the dataset
take_AllColumns(frame, pos, cols) ==
    [columns |-> frame.columns,
     index |-> [n \in DOMAIN pos |-> frame.index[pos[n]]],
     rows |-> [n \in DOMAIN pos |-> frame.rows[pos[n]]]]

\* df[cols] of the rows at the positions pos
take(frame, pos, cols) ==
    [columns |-> cols,
     index |-> [n \in DOMAIN pos |-> frame.index[pos[n]]],
     rows |-> [n \in DOMAIN pos |->
                 [c \in {cols[i] : i \in DOMAIN cols} |-> frame.rows[pos[n]][c]]]]

get_abnormal_records(frame, direction, indicator, stds) ==
    IF ~HasKey(stds, direction) THEN KeyError
    ELSE IF ~HasKey(Get(stds, direction), indicator) THEN KeyError
    ELSE LET std == Get(Get(stds, direction), indicator)
         IN  IF ~std.enabled THEN EmptyDf
             ELSE IF direction \notin DOMAIN INDICATOR_FIELDS THEN KeyError
             ELSE IF indicator \notin DOMAIN INDICATOR_FIELDS[direction] THEN KeyError
             ELSE LET fields == INDICATOR_FIELDS[direction][indicator]
                      n == Len(frame.rows)
                      present == SelectSeq(fields, LAMBDA f : HasColumn(frame, f))
                      \* the labels the mask is defined on
                      mask_labels == Labels(RangeIndex(n)) \cup
                                     (IF present = <<>> THEN {} ELSE Labels(frame.index))
                      pos == SelectSeq([r \in 1..n |-> r],
                                       LAMBDA r : abnormal_at(frame, fields, std.min, std.max, r))
                      keep_columns == ID_COLUMNS \o present
                      existing_columns == SelectSeq(keep_columns, LAMBDA c : HasColumn(frame, c))
                  IN  IF ~(Labels(frame.index) \subseteq mask_labels) THEN IndexingError
                      ELSE take(frame, pos, existing_columns)

(* ------------------------ analyze_all_indicators ---------------------- *)

DIRECTIONS == <<"entry", "exit">>

INDICATORS == <<"moisture", "alcohol", "acidity", "starch", "sugar">>

TEMPERATURE_INDICATORS == <<"grains_entry_temp", "temp_rise_range", "distillation_temp">>

\* direction_name ("ruchi" entry, "chuchi" exit, "wendu" temperature)
direction_name(direction) ==
    IF direction = "temperature" THEN "wendu"
    ELSE IF direction = "entry" THEN "ruchi" ELSE "chuchi"

\* the <<direction, indicator>> pairs in the key order of the standards
\* mapping (for direction in standards: for indicator in standards[direction])
RECURSIVE all_traversal_DictOrder(_)
all_traversal_DictOrder(stds) ==
    IF stds = <<>> THEN <<>>
    ELSE [n \in DOMAIN Head(stds)[2] |-> <<Head(stds)[1], Head(stds)[2][n][1]>>]
         \o all_traversal_DictOrder(Tail(stds))

\* the <<direction, indicator>> pairs in the order the nested loops of
\* analyze_all_indicators visit them
all_traversal(stds) ==
    [n \in 1..(Len(DIRECTIONS) * Len(INDICATORS)) |->
        <<DIRECTIONS[((n - 1) \div Len(INDICATORS)) + 1],
          INDICATORS[((n - 1) % Len(INDICATORS)) + 1]>>]
    \o (IF HasKey(stds, "temperature")
        THEN [n \in DOMAIN TEMPERATURE_INDICATORS |-> <<"temperature", TEMPERATURE_INDICATORS[n]>>]
        ELSE <<>>)

\* f"{x:.2f}" of a number x >= 0 with one decimal, held in tenths
fmt2f(x) == ToString(x[1] \div 10) \o "." \o ToString(x[1] % 10) \o "0"

\* std_range chosen by the truth value of the bounds: a bound of 0 counts
\* as absent
std_range_Truthy(min_std, max_std) ==
    IF (min_std # None /\ min_std # <<0>>) /\ (max_std # None /\ max_std # <<0>>)
    THEN fmt2f(min_std) \o " ~ " \o fmt2f(max_std)
    ELSE IF min_std # None /\ min_std # <<0>> THEN ">= " \o fmt2f(min_std)
    ELSE IF max_std # None /\ max_std # <<0>> THEN "<= " \o fmt2f(max_std)
    ELSE "wu xianzhi"

\* std_range
std_range(min_std, max_std) ==
    IF min_std # None /\ max_std # None THEN fmt2f(min_std) \o " ~ " \o fmt2f(max_std)
    ELSE IF min_std # None THEN ">= " \o fmt2f(min_std)
    ELSE IF max_std # None THEN "<= " \o fmt2f(max_std)
    ELSE "wu xianzhi"

\* analysis.get(key)
get_or_none(analysis, key) == IF key \in DOMAIN analysis THEN analysis[key] ELSE None

\* the columns of the report: direction, indicator, standard range, total
\* measurements, qualified, abnormal, qualification rate (%)
REPORT_COLUMNS == <<"fangxiang", "zhibiao", "biaozhun_fanwei", "zong_celiang_cishu",
                    "hege_cishu", "yichang_cishu", "hegelv">>

\* the dict appended to results for one enabled indicator
report_row(direction, indicator, analysis) ==
    [fangxiang |-> direction_name(direction),
     zhibiao |-> INDICATOR_NAMES_CN[indicator],
     biaozhun_fanwei |-> std_range(get_or_none(analysis, "min_standard"),
                                   get_or_none(analysis, "max_standard")),
     zong_celiang_cishu |-> analysis.total_count,
     hege_cishu |-> analysis.qualified_count,
     yichang_cishu |-> analysis.abnormal_count,
     hegelv |-> round2(analysis.qualification_rate)]

\* pd.DataFrame(results)
DataFrame(results) ==
    IF results = <<>> THEN EmptyDf
    ELSE [columns |-> REPORT_COLUMNS, index |-> RangeIndex(Len(results)), rows |-> results]

\* the analysis of every key of a traversal, in its order
\* the loop going on after a failed lookup, the indicator counted as
\* disabled
RECURSIVE analyze_each_SkipsMissing(_, _, _)
analyze_each_SkipsMissing(frame, keys, stds) ==
    IF keys = <<>> THEN <<>>
    ELSE LET analysis == analyze_single_indicator(frame, Head(keys)[1], Head(keys)[2], stds)
         IN  <<IF Raised(analysis)
               THEN [enabled |-> FALSE, total_count |-> 0, qualified_count |-> 0,
                     abnormal_count |-> 0, qualification_rate |-> Zero]
               ELSE analysis>>
             \o analyze_each_SkipsMissing(frame, Tail(keys), stds)

RECURSIVE analyze_each(_, _, _)
analyze_each(frame, keys, stds) ==
    IF keys = <<>> THEN <<>>
    ELSE <<analyze_single_indicator(frame, Head(keys)[1], Head(keys)[2], stds)>>
         \o analyze_each(frame, Tail(keys), stds)

\* analyze_all_indicators appending a row only for an enabled indicator
\* that has measurements
analyze_all_indicators_SkipsEmpty(frame, stds) ==
    LET keys == all_traversal(stds)
        analyses == analyze_each(frame, keys, stds)
        emitted == SelectSeq([n \in DOMAIN keys |-> n],
                             LAMBDA n : analyses[n].enabled /\ analyses[n].total_count > 0)
    IN  IF \E n \in DOMAIN keys : Raised(analyses[n]) THEN KeyError
        ELSE DataFrame([m \in DOMAIN emitted |->
                          report_row(keys[emitted[m]][1], keys[emitted[m]][2],
                                     analyses[emitted[m]])])

analyze_all_indicators(frame, stds) ==
    LET keys == all_traversal(stds)
        analyses == analyze_each(frame, keys, stds)
        emitted == SelectSeq([n \in DOMAIN keys |-> n], LAMBDA n : analyses[n].enabled)
    IN  IF \E n \in DOMAIN keys : Raised(analyses[n]) THEN KeyError
        ELSE DataFrame([m \in DOMAIN emitted |->
                          report_row(keys[emitted[m]][1], keys[emitted[m]][2],
                                     analyses[emitted[m]])])

(* -------------------- calculate_qualification_summary ----------------- *)

\* the loops of calculate_qualification_summary without the temperature
\* group
summary_traversal_NoTemperature(stds) ==
    [n \in 1..(Len(DIRECTIONS) * Len(INDICATORS)) |->
        <<DIRECTIONS[((n - 1) \div Len(INDICATORS)) + 1],
          INDICATORS[((n - 1) % Len(INDICATORS)) + 1]>>]

\* the <<direction, indicator>> pairs in the order the loops of
\* calculate_qualification_summary visit them
summary_traversal(stds) ==
    [n \in 1..(Len(DIRECTIONS) * Len(INDICATORS)) |->
        <<DIRECTIONS[((n - 1) \div Len(INDICATORS)) + 1],
          INDICATORS[((n - 1) % Len(INDICATORS)) + 1]>>]
    \o (IF HasKey(stds, "temperature")
        THEN [n \in DOMAIN TEMPERATURE_INDICATORS |-> <<"temperature", TEMPERATURE_INDICATORS[n]>>]
        ELSE <<>>)

\* the running sum of one count over the enabled indicators
RECURSIVE sum_enabled(_, _)
sum_enabled(analyses, field) ==
    IF analyses = <<>> THEN 0
    ELSE (IF Head(analyses).enabled THEN Head(analyses)[field] ELSE 0)
         + sum_enabled(Tail(analyses), field)

\* round(x, 1) of x = <<n, d>>, in hundredths
round1(x) ==
    LET n == x[1] * 10
        d == x[2]
        q == n \div d
        r == n % d
    IN  10 * (IF 2 * r < d THEN q
              ELSE IF 2 * r > d THEN q + 1
              ELSE IF q % 2 = 0 THEN q ELSE q + 1)

\* overall_rate rounded to one decimal
overall_qualification_rate_OneDecimal(total_qualified, total_measurements) ==
    round1(IF total_measurements > 0
           THEN Frac(total_qualified * 100, total_measurements)
           ELSE Zero)

\* overall_rate, rounded
overall_qualification_rate(total_qualified, total_measurements) ==
    round2(IF total_measurements > 0
           THEN Frac(total_qualified * 100, total_measurements)
           ELSE Zero)

\* the summary whose temperature loop does not add to total_qualified
calculate_qualification_summary_TemperatureUnqualified(frame, stds) ==
    LET keys == summary_traversal(stds)
        analyses == analyze_each(frame, keys, stds)
        first == analyze_each(frame, summary_traversal_NoTemperature(stds), stds)
    IN  IF \E n \in DOMAIN keys : Raised(analyses[n]) THEN KeyError
        ELSE [total_measurements |-> sum_enabled(analyses, "total_count"),
              total_qualified |-> sum_enabled(first, "qualified_count"),
              total_abnormal |-> sum_enabled(analyses, "abnormal_count"),
              overall_qualification_rate |->
                  overall_qualification_rate(sum_enabled(first, "qualified_count"),
                                             sum_enabled(analyses, "total_count"))]

calculate_qualification_summary(frame, stds) ==
    LET keys == summary_traversal(stds)
        analyses == analyze_each(frame, keys, stds)
    IN  IF \E n \in DOMAIN keys : Raised(analyses[n]) THEN KeyError
        ELSE LET total_measurements == sum_enabled(analyses, "total_count")
                 total_qualified == sum_enabled(analyses, "qualified_count")
                 total_abnormal == sum_enabled(analyses, "abnormal_count")
             IN  [total_measurements |-> total_measurements,
                  total_qualified |-> total_qualified,
                  total_abnormal |-> total_abnormal,
                  overall_qualification_rate |->
                      overall_qualification_rate(total_qualified, total_measurements)]

(* ------------------- the standards file and its load ------------------ *)

\* config/process_standards.json: not there, there but not parseable, or
\* holding the mapping that save_standards wrote
NoFile == [state |-> "missing"]

BadFile == [state |-> "unreadable"]

FileOf(stds) == [state |-> "saved", data |-> stds]

\* what load_process_standards returns: Python's None, or a mapping
NoStandards == [none |-> TRUE]

Mapping(stds) == [value |-> stds]

IsNone(r) == "none" \in DOMAIN r

\* a load that answers a missing file with an empty mapping
load_process_standards_Empty(file) ==
    IF file.state = "saved" THEN Mapping(file.data) ELSE Mapping(<<>>)

load_process_standards(file) ==
    IF file.state = "missing" THEN NoStandards
    ELSE IF file.state = "unreadable" THEN NoStandards
    ELSE Mapping(file.data)

\* no page is running
NoPage == [pc |-> "none"]

\* st.session_state.standards of the settings page: not set before the
\* page's first run, then the mapping the widgets edit
NoSession == [state |-> "unset"]

SessionOf(stds) == [state |-> "set", standards |-> stds]

(* ------------------------------ the calls ----------------------------- *)

NoCall == [op |-> "none"]

\* check_value_in_range(value, min_val, max_val) is called
CallCheckValueInRange(value, min_val, max_val) ==
    /\ call' = [op |-> "check_value_in_range",
                value |-> value, min_val |-> min_val, max_val |-> max_val,
                ret |-> check_value_in_range(value, min_val, max_val)]
    /\ UNCHANGED <<df, standards, config_file, page, session>>

\* analyze_single_indicator(df, direction, indicator, standards) is called
CallAnalyzeSingleIndicator(direction, indicator) ==
    /\ call' = [op |-> "analyze_single_indicator",
                direction |-> direction, indicator |-> indicator,
                ret |-> analyze_single_indicator(df, direction, indicator, standards)]
    /\ UNCHANGED <<df, standards, config_file, page, session>>

\* get_abnormal_records selecting the rows and the columns in the dataset
\* it was given, which is then the result
CallGetAbnormalRecords_InPlace(direction, indicator) ==
    /\ call' = [op |-> "get_abnormal_records",
                direction |-> direction, indicator |-> indicator,
                ret |-> get_abnormal_records(df, direction, indicator, standards)]
    /\ df' = IF Raised(call'.ret) THEN df ELSE call'.ret
    /\ UNCHANGED <<standards, config_file, page, session>>

\* get_abnormal_records(df, direction, indicator, standards) is called
CallGetAbnormalRecords(direction, indicator) ==
    /\ call' = [op |-> "get_abnormal_records",
                direction |-> direction, indicator |-> indicator,
                ret |-> get_abnormal_records(df, direction, indicator, standards)]
    /\ UNCHANGED <<df, standards, config_file, page, session>>

\* analyze_all_indicators dropping, in the dataset it was given, the rows
\* that lack a reading
CallAnalyzeAllIndicators_DropsNa ==
    /\ call' = [op |-> "analyze_all_indicators",
                ret |-> analyze_all_indicators(df, standards)]
    /\ df' = [df EXCEPT
                 !.index = SelectSeq(df.index,
                               LAMBDA l : \A r \in DOMAIN df.rows :
                                   df.index[r] = l =>
                                       \A c \in DOMAIN df.rows[r] : df.rows[r][c] # NaN),
                 !.rows = SelectSeq(df.rows, LAMBDA row : \A c \in DOMAIN row : row[c] # NaN)]
    /\ UNCHANGED <<standards, config_file, page, session>>

\* analyze_all_indicators(df, standards) is called
CallAnalyzeAllIndicators ==
    /\ call' = [op |-> "analyze_all_indicators",
                ret |-> analyze_all_indicators(df, standards)]
    /\ UNCHANGED <<df, standards, config_file, page, session>>

\* calculate_qualification_summary(df, standards) is called
CallCalculateQualificationSummary ==
    /\ call' = [op |-> "calculate_qualification_summary",
                ret |-> calculate_qualification_summary(df, standards)]
    /\ UNCHANGED <<df, standards, config_file, page, session>>

(* ------------------------------ the inputs ---------------------------- *)

\* the 13 <<direction, indicator>> keys of the catalog
CatalogKeys ==
    {<<d, i>> : d \in {"entry", "exit"},
                i \in {"moisture", "alcohol", "acidity", "starch", "sugar"}}
    \cup {<<"temperature", i>> : i \in {"grains_entry_temp", "temp_rise_range",
                                         "distillation_temp"}}

Reverse(s) == [i \in DOMAIN s |-> s[Len(s) + 1 - i]]

\* the dict of one group: the indicators in catalog order (or reversed),
\* each with its {min, max, enabled}
GroupDict(direction, indicators, enabled, bnd, reversed) ==
    LET order == IF reversed THEN Reverse(indicators) ELSE indicators
    IN  [n \in DOMAIN order |->
            <<order[n], [min |-> bnd[<<direction, order[n]>>][1],
                         max |-> bnd[<<direction, order[n]>>][2],
                         enabled |-> <<direction, order[n]>> \in enabled]>>]

\* a standards configuration as json.load returns it: the set of enabled
\* keys, the <<min, max>> of every key, the key order of the file (catalog
\* order or reversed) and whether the file has a temperature group
MkStandards(enabled, bnd, reversed, hasTemperature) ==
    LET groups == <<"entry", "exit">> \o (IF hasTemperature THEN <<"temperature">> ELSE <<>>)
        order == IF reversed THEN Reverse(groups) ELSE groups
    IN  [n \in DOMAIN order |->
            <<order[n],
              GroupDict(order[n],
                        IF order[n] = "temperature" THEN TEMPERATURE_INDICATORS ELSE INDICATORS,
                        enabled, bnd, reversed)>>]

\* the columns of a dataset that hold readings
DATA_COLUMNS ==
    UNION {{INDICATOR_FIELDS[k[1]][k[2]][f] : f \in DOMAIN INDICATOR_FIELDS[k[1]][k[2]]}
           : k \in CatalogKeys}

\* a dataset as the query layer returns it (RangeIndex): the identifying
\* and other columns hold the number of the row, the reading columns hold
\* the given cells
MkFrame(columns, cells) ==
    [columns |-> columns,
     index |-> RangeIndex(Len(cells)),
     rows |-> [r \in DOMAIN cells |->
                 [c \in {columns[i] : i \in DOMAIN columns} |->
                     IF c \in DATA_COLUMNS THEN cells[r][c] ELSE Some(r)]]]

\* the datasets with the given columns, at most maxRows rows and readings
\* up to maxVal
Frames(columns, maxRows, maxVal) ==
    LET data == {columns[i] : i \in DOMAIN columns} \cap DATA_COLUMNS
    IN  {MkFrame(columns, cells) :
            cells \in UNION {[1..n -> [data -> Opt(0..maxVal)]] : n \in 0..maxRows}}

(* ------------- specification of the single-indicator analysis --------- *)

\* column lists of the datasets: both layers of entry moisture; the lower
\* layer only; a temperature; no reading column at all
IndicatorColumns ==
    {<<"pit_no", "entry_moisture_upper", "entry_moisture_lower", "map_id">>,
     <<"entry_moisture_lower", "pit_no">>,
     <<"pit_no", "grains_entry_temp", "map_id">>,
     <<"round_number", "pit_no">>}

\* the <<direction, indicator>> pairs requested
IndicatorRequests == {<<"entry", "moisture">>, <<"temperature", "grains_entry_temp">>}

InitIndicator ==
    /\ df \in UNION {Frames(columns, MaxRows, MaxVal) : columns \in IndicatorColumns}
    /\ \E min_val \in Opt(0..MaxBound), max_val \in Opt(0..MaxBound), enabled \in BOOLEAN :
          standards = MkStandards(IF enabled THEN CatalogKeys ELSE {},
                                  [k \in CatalogKeys |-> <<min_val, max_val>>],
                                  FALSE, TRUE)
    /\ call = NoCall
    /\ config_file = NoFile
    /\ page = NoPage
    /\ session = NoSession

NextIndicator ==
    \/ \E k \in IndicatorRequests : CallAnalyzeSingleIndicator(k[1], k[2])
    \/ \E k \in IndicatorRequests : CallGetAbnormalRecords(k[1], k[2])

SpecIndicator == InitIndicator /\ [][NextIndicator]_vars

(* ------ specification of the records query over relabelled datasets ---- *)

\* the row labels of a dataset of n rows that was filtered or reordered
\* before the call: n distinct labels out of 0..MaxLabel, in any order
Indexes(n) ==
    {index \in [1..n -> 0..MaxLabel] :
        \A i, j \in 1..n : index[i] = index[j] => i = j}

\* the dataset with the given row labels
Reindexed(frame, index) == [frame EXCEPT !.index = index]

\* column lists of the relabelled datasets: both layers of entry moisture;
\* no reading column at all
IndexedColumns ==
    {<<"pit_no", "entry_moisture_upper", "entry_moisture_lower">>,
     <<"round_number", "pit_no">>}

InitIndexed ==
    /\ \E frame \in UNION {Frames(columns, MaxRows, MaxVal) : columns \in IndexedColumns} :
          \E index \in Indexes(Len(frame.rows)) : df = Reindexed(frame, index)
    /\ \E min_val \in Opt(0..MaxBound), max_val \in Opt(0..MaxBound) :
          standards = MkStandards(CatalogKeys,
                                  [k \in CatalogKeys |-> <<min_val, max_val>>],
                                  FALSE, TRUE)
    /\ call = NoCall
    /\ config_file = NoFile
    /\ page = NoPage
    /\ session = NoSession

NextIndexed == CallGetAbnormalRecords("entry", "moisture")

SpecIndexed == InitIndexed /\ [][NextIndexed]_vars

(* ------------- specification of requests outside the catalog ---------- *)

\* <<direction, indicator>> pairs that INDICATOR_FIELDS does not have: an
\* unknown indicator of a known group, and an unknown group
UnknownKeys == {<<"entry", "ph">>, <<"humidity", "level">>}

\* the standards mapping with one more entry, for the key k (a file edited
\* by hand: json.load returns whatever keys the file has)
WithEntry(stds, k, std) ==
    IF HasKey(stds, k[1])
    THEN [n \in DOMAIN stds |->
             IF stds[n][1] = k[1]
             THEN <<k[1], Append(stds[n][2], <<k[2], std>>)>>
             ELSE stds[n]]
    ELSE Append(stds, <<k[1], <<<<k[2], std>>>>>>)

\* column list of the datasets
UnknownColumns == <<"pit_no", "entry_moisture_upper">>

\* the standards mapping has no entry for the unknown key, or an enabled
\* one, or a disabled one
InitUnknown ==
    /\ df \in Frames(UnknownColumns, MaxRows, MaxVal)
    /\ \E min_val \in Opt(0..MaxBound), max_val \in Opt(0..MaxBound) :
          LET stds == MkStandards(CatalogKeys,
                                  [k \in CatalogKeys |-> <<min_val, max_val>>],
                                  FALSE, TRUE)
          IN  \/ standards = stds
              \/ \E k \in UnknownKeys, enabled \in BOOLEAN :
                    standards = WithEntry(stds, k, [min |-> min_val, max |-> max_val,
                                                    enabled |-> enabled])
    /\ call = NoCall
    /\ config_file = NoFile
    /\ page = NoPage
    /\ session = NoSession

NextUnknown ==
    \/ \E k \in UnknownKeys : CallAnalyzeSingleIndicator(k[1], k[2])
    \/ \E k \in UnknownKeys : CallGetAbnormalRecords(k[1], k[2])

SpecUnknown == InitUnknown /\ [][NextUnknown]_vars

(* ------------------ specification of the two reports ------------------ *)

\* columns of the datasets: both layers of entry moisture and a temperature
\* (the merged physicochemical and temperature query); the order of the
\* columns is this one or the reverse
ReportColumns ==
    <<"pit_no", "entry_moisture_upper", "entry_moisture_lower", "grains_entry_temp", "map_id">>

\* the sets of enabled keys
EnabledSets ==
    {S \in SUBSET CatalogKeys :
        \/ Cardinality(S) <= MaxEnabled
        \/ Cardinality(CatalogKeys \ S) <= MaxDisabled}

\* the configured bounds: none at all, or one number given as min and max
\* to the entry group, as min only to the exit group and as max only to the
\* temperature group
BoundsOf(b) ==
    [k \in CatalogKeys |->
        IF b = None THEN <<None, None>>
        ELSE IF k[1] = "entry" THEN <<b, b>>
        ELSE IF k[1] = "exit" THEN <<b, None>>
        ELSE <<None, b>>]

\* the dataset and the standards file come in catalog order or both reversed
InitAll ==
    /\ \E reversed \in BOOLEAN :
          /\ df \in Frames(IF reversed THEN Reverse(ReportColumns) ELSE ReportColumns,
                           MaxRowsAll, MaxValAll)
          /\ \E enabled \in EnabledSets, b \in Opt(0..MaxBound), hasTemperature \in BOOLEAN :
                standards = MkStandards(enabled, BoundsOf(b), reversed, hasTemperature)
    /\ call = NoCall
    /\ config_file = NoFile
    /\ page = NoPage
    /\ session = NoSession

NextAll ==
    \/ CallAnalyzeAllIndicators
    \/ CallCalculateQualificationSummary

SpecAll == InitAll /\ [][NextAll]_vars

(* --------------- specification of the range check alone --------------- *)

InitRange ==
    /\ df = EmptyDf
    /\ standards = <<>>
    /\ call = NoCall
    /\ config_file = NoFile
    /\ page = NoPage
    /\ session = NoSession

NextRange ==
    \E value \in Opt(0..MaxArg), min_val \in Opt(0..MaxArg), max_val \in Opt(0..MaxArg) :
        CallCheckValueInRange(value, min_val, max_val)

SpecRange == InitRange /\ [][NextRange]_vars

(* ----------------- specification of the analysis page ---------------- *)

\* The page script runs top to bottom for one request; page.pc is its
\* position, page.loaded tells what load_process_standards returned,
\* page.calls lists the calls of the request with the standards each one
\* received.  The settings page runs in a session of its own and may save
\* the file between any two steps.

\* the standards passed on by a page that reads the file again at each call
StandardsArgument_Reload(stds, file) ==
    IF IsNone(load_process_standards(file)) THEN stds
    ELSE load_process_standards(file).value

\* the standards argument of the three calls: the page's variable
StandardsArgument(stds, file) == stds

\* the mappings the settings page saves: every key enabled or none, one
\* number as bound, with or without the temperature group (files written
\* before the group existed)
PageStandards ==
    {MkStandards(enabled, BoundsOf(b), FALSE, hasTemperature) :
        enabled \in {CatalogKeys, {}}, b \in Opt(0..MaxBound),
        hasTemperature \in BOOLEAN}

\* columns of the merged dataset
PageColumns == <<"pit_no", "entry_moisture_upper", "grains_entry_temp", "map_id">>

\* standards = load_process_standards(); if standards is None: st.stop()
PageLoadStandards ==
    /\ page.pc = "start"
    /\ LET r == load_process_standards(config_file)
       IN  IF IsNone(r)
           THEN /\ page' = [page EXCEPT !.pc = "stopped", !.loaded = "none"]
                /\ UNCHANGED standards
           ELSE /\ page' = [page EXCEPT !.pc = "loaded", !.loaded = "mapping"]
                /\ standards' = r.value
    /\ UNCHANGED <<df, call, config_file, session>>

\* the two queries and the merge; an empty dataset ends the request with
\* a warning
PageLoadData ==
    /\ page.pc = "loaded"
    /\ df' \in Frames(PageColumns, MaxRowsAll, MaxValAll)
    /\ page' = [page EXCEPT !.pc = IF df'.rows = <<>> THEN "done" ELSE "analysis"]
    /\ UNCHANGED <<standards, call, config_file, session>>

\* the record of a call in page.calls
CallOf(op, stds, ret) == [op |-> op, standards |-> stds, ret |-> ret]

\* summary = calculate_qualification_summary(df, standards); an exception
\* ends the request in the except branch
PageSummary ==
    /\ page.pc = "analysis"
    /\ LET stds == StandardsArgument(standards, config_file)
           ret == calculate_qualification_summary(df, stds)
       IN  /\ call' = [op |-> "calculate_qualification_summary", ret |-> ret]
           /\ page' = [page EXCEPT
                          !.pc = IF Raised(ret) THEN "done" ELSE "summary",
                          !.calls = Append(@, CallOf("calculate_qualification_summary",
                                                     stds, ret))]
    /\ UNCHANGED <<df, standards, config_file, session>>

\* analysis_df = analyze_all_indicators(df, standards)
PageAnalyzeAll ==
    /\ page.pc = "summary"
    /\ LET stds == StandardsArgument(standards, config_file)
           ret == analyze_all_indicators(df, stds)
       IN  /\ call' = [op |-> "analyze_all_indicators", ret |-> ret]
           /\ page' = [page EXCEPT
                          !.pc = IF Raised(ret) THEN "done" ELSE "table",
                          !.calls = Append(@, CallOf("analyze_all_indicators", stds, ret))]
    /\ UNCHANGED <<df, standards, config_file, session>>

\* every indicator of the chosen direction offered, enabled or not
enabled_indicators_IgnoresEnabled(direction_key, stds) ==
    IF direction_key = "temperature"
    THEN IF HasKey(stds, "temperature") THEN TEMPERATURE_INDICATORS ELSE <<>>
    ELSE INDICATORS

\* the temperature indicators offered also when the standards have no
\* temperature group
enabled_indicators_NoGroupTest(direction_key, stds) ==
    IF direction_key = "temperature"
    THEN SelectSeq(TEMPERATURE_INDICATORS,
                   LAMBDA ind : \/ ~HasKey(stds, "temperature")
                                \/ Get(Get(stds, "temperature"), ind).enabled)
    ELSE SelectSeq(INDICATORS, LAMBDA ind : Get(Get(stds, direction_key), ind).enabled)

\* the indicators offered for the chosen direction: the enabled ones, in
\* catalog order
enabled_indicators(direction_key, stds) ==
    IF direction_key = "temperature"
    THEN SelectSeq(TEMPERATURE_INDICATORS,
                   LAMBDA ind : /\ HasKey(stds, "temperature")
                                /\ Get(Get(stds, "temperature"), ind).enabled)
    ELSE SelectSeq(INDICATORS, LAMBDA ind : Get(Get(stds, direction_key), ind).enabled)

\* the reverse lookup of the indicator key from the displayed name
indicator_key_of(indicator_option) ==
    CHOOSE k \in DOMAIN INDICATOR_NAMES_CN : INDICATOR_NAMES_CN[k] = indicator_option

\* the query button: abnormal_df = get_abnormal_records(df, direction_key,
\* indicator_key, standards) for the chosen direction and one of the
\* indicators offered
PageAbnormalRecords ==
    /\ page.pc = "table"
    /\ \E direction_key \in {"entry", "exit", "temperature"} :
          \E n \in DOMAIN enabled_indicators(direction_key, standards) :
              LET indicator_option ==
                      INDICATOR_NAMES_CN[enabled_indicators(direction_key, standards)[n]]
                  indicator_key == indicator_key_of(indicator_option)
                  stds == StandardsArgument(standards, config_file)
                  ret == get_abnormal_records(df, direction_key, indicator_key, stds)
              IN  /\ call' = [op |-> "get_abnormal_records",
                              direction |-> direction_key, indicator |-> indicator_key,
                              ret |-> ret]
                  /\ page' = [page EXCEPT
                                 !.pc = "done",
                                 !.calls = Append(@, CallOf("get_abnormal_records",
                                                            stds, ret))]
    /\ UNCHANGED <<df, standards, config_file, session>>

\* no indicator is offered, or the button is not pressed
PageNoQuery ==
    /\ page.pc = "table"
    /\ page' = [page EXCEPT !.pc = "done"]
    /\ UNCHANGED <<df, standards, call, config_file, session>>

\* the next request: the script starts again with nothing defined
PageRerun ==
    /\ page.pc \in {"stopped", "done"}
    /\ page' = [pc |-> "start", loaded |-> "unset", calls |-> <<>>]
    /\ df' = EmptyDf
    /\ standards' = <<>>
    /\ call' = NoCall
    /\ UNCHANGED <<config_file, session>>

\* the save button of the settings page: save_standards writes the file
SettingsSave(stds) ==
    /\ config_file' = FileOf(stds)
    /\ UNCHANGED <<df, standards, call, page, session>>

InitPage ==
    /\ df = EmptyDf
    /\ standards = <<>>
    /\ call = NoCall
    /\ config_file \in {NoFile, BadFile} \cup {FileOf(stds) : stds \in PageStandards}
    /\ page = [pc |-> "start", loaded |-> "unset", calls |-> <<>>]
    /\ session = NoSession

NextPage ==
    \/ PageLoadStandards
    \/ PageLoadData
    \/ PageSummary
    \/ PageAnalyzeAll
    \/ PageAbnormalRecords
    \/ PageNoQuery
    \/ PageRerun
    \/ \E stds \in PageStandards : SettingsSave(stds)

SpecPage == InitPage /\ [][NextPage]_vars

(* ----------------- specification of the settings page ---------------- *)

\* The settings page keeps its mapping in the session; its widgets write
\* into that mapping, the reset button replaces it by the defaults and the
\* save button writes it to the file the analysis page reads.

\* the <<min, max>> of DEFAULT_STANDARDS, in tenths
DEFAULT_BOUNDS ==
    [k \in CatalogKeys |->
        CASE k = <<"entry", "moisture">> -> <<Some(500), Some(560)>>
          [] k = <<"entry", "alcohol">> -> <<Some(15), Some(30)>>
          [] k = <<"entry", "acidity">> -> <<Some(18), Some(25)>>
          [] k = <<"entry", "starch">> -> <<Some(100), Some(150)>>
          [] k = <<"entry", "sugar">> -> <<Some(5), Some(12)>>
          [] k = <<"exit", "moisture">> -> <<Some(580), Some(620)>>
          [] k = <<"exit", "alcohol">> -> <<None, None>>
          [] k = <<"exit", "acidity">> -> <<Some(25), Some(35)>>
          [] k = <<"exit", "starch">> -> <<None, Some(50)>>
          [] k = <<"exit", "sugar">> -> <<None, Some(15)>>
          [] k = <<"temperature", "grains_entry_temp">> -> <<Some(250), Some(300)>>
          [] k = <<"temperature", "temp_rise_range">> -> <<Some(100), Some(150)>>
          [] k = <<"temperature", "distillation_temp">> -> <<Some(300), Some(350)>>]

DEFAULT_STANDARDS ==
    MkStandards(CatalogKeys \ {<<"exit", "alcohol">>}, DEFAULT_BOUNDS, FALSE, TRUE)

\* load_standards: the content of the file, the defaults when the file is
\* missing or cannot be parsed
load_standards(file) ==
    IF file.state = "saved" THEN file.data ELSE DEFAULT_STANDARDS

\* if "temperature" not in standards: the group of the defaults is added
ensure_temperature(stds) ==
    IF HasKey(stds, "temperature") THEN stds
    ELSE Append(stds, <<"temperature", Get(DEFAULT_STANDARDS, "temperature")>>)

\* standards[group][indicator][field] = v
SetField(stds, k, field, v) ==
    [g \in DOMAIN stds |->
        IF stds[g][1] # k[1] THEN stds[g]
        ELSE <<k[1], [i \in DOMAIN stds[g][2] |->
                        IF stds[g][2][i][1] # k[2] THEN stds[g][2][i]
                        ELSE <<k[2], [stds[g][2][i][2] EXCEPT ![field] = v]>>]>>]

\* the indicators whose widgets are operated, and the bound that is edited
EditKeys == {<<"entry", "moisture">>}

EditFields == {"min"}

\* the values an edit gives the bound: no limit, or the number
EditBounds == {None, Some(0)}

\* the file a session finds: none, an unreadable one, or one written before
\* the temperature group existed
OldStandards == MkStandards(CatalogKeys, BoundsOf(None), FALSE, FALSE)

\* first run of the page in a session: the session copy is loaded
SettingsOpen ==
    /\ session = NoSession
    /\ session' = SessionOf(ensure_temperature(load_standards(config_file)))
    /\ UNCHANGED <<df, standards, call, config_file, page>>

\* the enabled checkbox of an indicator is switched
SettingsSetEnabled(k, enabled) ==
    /\ session # NoSession
    /\ session' = SessionOf(SetField(session.standards, k, "enabled", enabled))
    /\ UNCHANGED <<df, standards, call, config_file, page>>

\* the number input or the no-limit checkbox of an enabled indicator is
\* changed: the bound becomes the number, or None
SettingsSetBound(k, field, bound) ==
    /\ session # NoSession
    /\ Get(Get(session.standards, k[1]), k[2]).enabled
    /\ session' = SessionOf(SetField(session.standards, k, field, bound))
    /\ UNCHANGED <<df, standards, call, config_file, page>>

\* a reset button that also writes the defaults to the file
SettingsReset_Persists ==
    /\ session # NoSession
    /\ session' = SessionOf(DEFAULT_STANDARDS)
    /\ config_file' = FileOf(DEFAULT_STANDARDS)
    /\ UNCHANGED <<df, standards, call, page>>

\* the reset button: the session copy becomes the defaults
SettingsReset ==
    /\ session # NoSession
    /\ session' = SessionOf(DEFAULT_STANDARDS)
    /\ UNCHANGED <<df, standards, call, config_file, page>>

\* the save button: the session copy is written to the file
SettingsSaveSession ==
    /\ session # NoSession
    /\ SettingsSave(session.standards)

InitSettings ==
    /\ df = EmptyDf
    /\ standards = <<>>
    /\ call = NoCall
    /\ config_file \in {NoFile, BadFile, FileOf(OldStandards)}
    /\ page = [pc |-> "start", loaded |-> "unset", calls |-> <<>>]
    /\ session = NoSession

NextSettings ==
    \/ SettingsOpen
    \/ \E k \in EditKeys, enabled \in BOOLEAN : SettingsSetEnabled(k, enabled)
    \/ \E k \in EditKeys, field \in EditFields, bound \in EditBounds :
            SettingsSetBound(k, field, bound)
    \/ SettingsReset
    \/ SettingsSaveSession
    \/ PageLoadStandards
    \/ PageLoadData
    \/ PageSummary
    \/ PageAnalyzeAll
    \/ PageAbnormalRecords
    \/ PageNoQuery
    \/ PageRerun

SpecSettings == InitSettings /\ [][NextSettings]_vars

(* ------------------- specification of the filters -------------------- *)

\* The filter mapping of the page is an ordered association list of
\* <<key, list of selected items>>; a key the form did not set is absent.

\* the filter keys, in the order the form sets them
FILTER_KEYS == <<"months", "rounds", "workshops">>

\* the selections of one multiselect: nothing, or the first n items
Selections == {[i \in 1..n |-> i] : n \in 0..MaxSelected}

\* the filter mappings: every key absent or set to a selection
FilterMappings ==
    {SelectSeq([n \in DOMAIN FILTER_KEYS |-> <<FILTER_KEYS[n], v[n]>>],
               LAMBDA e : e[1] \in present)
        : present \in SUBSET {FILTER_KEYS[n] : n \in DOMAIN FILTER_KEYS},
          v \in [DOMAIN FILTER_KEYS -> Selections]}

\* filters.get(k) is truthy: the key is present with a non-empty list
Given(filters, k) == HasKey(filters, k) /\ Get(filters, k) # <<>>

\* d.pop(k, None) on a dict
Pop(d, k) == SelectSeq(d, LAMBDA e : e[1] # k)

\* a validation that gives months the priority and drops rounds
validate_filter_conditions_DropsRounds(filters) ==
    IF Given(filters, "months") /\ Given(filters, "rounds")
    THEN Pop(filters, "rounds")
    ELSE filters

\* validate_filter_conditions: the returned mapping, a copy of the input
\* without months when months and rounds are both given
validate_filter_conditions(filters) ==
    IF Given(filters, "months") /\ Given(filters, "rounds")
    THEN Pop(filters, "months")
    ELSE filters

\* the caller's mapping after the call: the pop acted on the copy
filters_after_validation(filters) == filters

\* validated_filters = validate_filter_conditions(filters)
PageValidateFilters ==
    /\ page.pc = "filters"
    /\ call' = [op |-> "validate_filter_conditions",
                ret |-> validate_filter_conditions(page.filters)]
    /\ page' = [pc |-> "validated", filters |-> filters_after_validation(page.filters)]
    /\ UNCHANGED <<df, standards, config_file, session>>

\* the form is submitted again with another choice of filters
PageRenderFilters ==
    /\ page.pc = "validated"
    /\ \E filters \in FilterMappings : page' = [pc |-> "filters", filters |-> filters]
    /\ call' = NoCall
    /\ UNCHANGED <<df, standards, config_file, session>>

InitFilters ==
    /\ df = EmptyDf
    /\ standards = <<>>
    /\ call = NoCall
    /\ config_file = NoFile
    /\ page \in {[pc |-> "filters", filters |-> filters] : filters \in FilterMappings}
    /\ session = NoSession

NextFilters ==
    \/ PageValidateFilters
    \/ PageRenderFilters

SpecFilters == InitFilters /\ [][NextFilters]_vars

(* --------- specification of the three entry points, interleaved ------- *)

\* the keys whose records are asked for
CallsRequests == {<<"entry", "moisture">>, <<"temperature", "grains_entry_temp">>}

\* one dataset and one standards mapping, handed to the three entry points
\* again and again, in any order
InitCalls ==
    /\ df \in Frames(PageColumns, MaxRows, MaxVal)
    /\ standards \in PageStandards
    /\ call = NoCall
    /\ config_file = NoFile
    /\ page = NoPage
    /\ session = NoSession

NextCalls ==
    \/ CallAnalyzeAllIndicators
    \/ CallCalculateQualificationSummary
    \/ \E k \in CallsRequests : CallGetAbnormalRecords(k[1], k[2])

SpecCalls == InitCalls /\ [][NextCalls]_vars

(* ------ specification of the two reports over incomplete standards ---- *)

\* the standards mapping without the entry of the key k
WithoutEntry(stds, k) ==
    [g \in DOMAIN stds |->
        IF stds[g][1] = k[1]
        THEN <<k[1], SelectSeq(stds[g][2], LAMBDA e : e[1] # k[2])>>
        ELSE stds[g]]

\* the standards mapping without a whole group
WithoutGroup(stds, direction) == SelectSeq(stds, LAMBDA g : g[1] # direction)

\* the keys of the entry and exit groups
EntryExitKeys == {k \in CatalogKeys : k[1] \in {"entry", "exit"}}

\* a standards file as saved, or edited by hand so that it lacks one
\* entry, or one group, of the entry and exit groups
InitPartial ==
    /\ df \in Frames(PageColumns, MaxRowsAll, MaxValAll)
    /\ \E stds \in PageStandards :
          \/ standards = stds
          \/ \E k \in EntryExitKeys : standards = WithoutEntry(stds, k)
          \/ \E direction \in {"entry", "exit"} : standards = WithoutGroup(stds, direction)
    /\ call = NoCall
    /\ config_file = NoFile
    /\ page = NoPage
    /\ session = NoSession

NextPartial ==
    \/ CallAnalyzeAllIndicators
    \/ CallCalculateQualificationSummary

SpecPartial == InitPartial /\ [][NextPartial]_vars

(* -------------------------------- C1 ---------------------------------- *)

\* C1: the range check returns qualified exactly when (min is absent or
\* v >= min) and (max is absent or v <= max), for every present value v and
\* every combination of present/absent bounds; the bounds are inclusive.
C1_InclusiveBounds ==
    (call.op = "check_value_in_range" /\ call.value # NaN) =>
        (call.ret <=> ( /\ (call.min_val = None \/ call.value[1] >= call.min_val[1])
                        /\ (call.max_val = None \/ call.value[1] <= call.max_val[1]) ))

\* a value equal to both of its bounds was checked and found qualified
C1_Witness ==
    /\ call.op = "check_value_in_range"
    /\ call.value # NaN /\ call.min_val = call.value /\ call.max_val = call.value
    /\ call.ret = TRUE

(* -------------------------------- C2 ---------------------------------- *)

\* C2: the range check returns qualified for a missing value, for every
\* combination of bounds, bounds with min > max included.
C2_MissingQualified ==
    (call.op = "check_value_in_range" /\ call.value = NaN) => call.ret = TRUE

\* a missing value was checked against bounds no number satisfies
C2_Witness ==
    /\ call.op = "check_value_in_range"
    /\ call.value = NaN
    /\ call.min_val # None /\ call.max_val # None
    /\ call.min_val[1] > call.max_val[1]
    /\ call.ret = TRUE

(* -------------------------------- C3 ---------------------------------- *)

\* the {min, max, enabled} configured for the key of the last call
CallStd == Get(Get(standards, call.direction), call.indicator)

\* C3: for every dataset and every standards configuration the result of
\* analyze_single_indicator for an enabled indicator has
\* abnormal_count + qualified_count = total_count, the three counts being
\* non-negative.
C3_CountsAddUp ==
    (call.op = "analyze_single_indicator" /\ ~Raised(call.ret) /\ call.ret.enabled) =>
        /\ call.ret.abnormal_count + call.ret.qualified_count = call.ret.total_count
        /\ call.ret.total_count >= 0
        /\ call.ret.qualified_count >= 0
        /\ call.ret.abnormal_count >= 0

\* an enabled indicator was analysed over a dataset that holds a missing
\* reading, a qualified one and an abnormal one
C3_Witness ==
    /\ call.op = "analyze_single_indicator"
    /\ ~Raised(call.ret) /\ call.ret.enabled
    /\ call.ret.qualified_count >= 1 /\ call.ret.abnormal_count >= 1
    /\ \E r \in DOMAIN df.rows :
          \E f \in DOMAIN INDICATOR_FIELDS[call.direction][call.indicator] :
              /\ HasColumn(df, INDICATOR_FIELDS[call.direction][call.indicator][f])
              /\ df.rows[r][INDICATOR_FIELDS[call.direction][call.indicator][f]] = NaN

(* -------------------------------- C4 ---------------------------------- *)

\* C4: for a disabled indicator analyze_single_indicator returns
\* enabled = false with the three counts 0 and the rate 0.0, and
\* get_abnormal_records returns an empty result, whatever the dataset holds
\* and whatever min/max are configured.
C4_DisabledIsZero ==
    /\ (call.op = "analyze_single_indicator" /\ ~CallStd.enabled) =>
           call.ret = [enabled |-> FALSE, total_count |-> 0, qualified_count |-> 0,
                       abnormal_count |-> 0, qualification_rate |-> Zero]
    /\ (call.op = "get_abnormal_records" /\ ~CallStd.enabled) =>
           (~Raised(call.ret) /\ call.ret.rows = <<>>)

\* a reading of the key's fields that the configured bounds reject
HasAbnormalReading(frame, direction, indicator, min_val, max_val) ==
    \E r \in DOMAIN frame.rows :
        \E f \in DOMAIN INDICATOR_FIELDS[direction][indicator] :
            LET field == INDICATOR_FIELDS[direction][indicator][f]
            IN  /\ HasColumn(frame, field)
                /\ frame.rows[r][field] # NaN
                /\ \/ (min_val # None /\ frame.rows[r][field][1] < min_val[1])
                   \/ (max_val # None /\ frame.rows[r][field][1] > max_val[1])

\* a disabled indicator whose readings break its configured bounds was
\* analysed
C4_Witness ==
    /\ call.op = "analyze_single_indicator"
    /\ ~CallStd.enabled
    /\ HasAbnormalReading(df, call.direction, call.indicator, CallStd.min, CallStd.max)
    /\ call.ret.total_count = 0

(* -------------------------------- C6 ---------------------------------- *)

\* the <<row, field>> cells of the key's fields present in the dataset that
\* hold a reading
Readings(frame, direction, indicator) ==
    {c \in (DOMAIN frame.rows) \X (DOMAIN INDICATOR_FIELDS[direction][indicator]) :
        /\ HasColumn(frame, INDICATOR_FIELDS[direction][indicator][c[2]])
        /\ frame.rows[c[1]][INDICATOR_FIELDS[direction][indicator][c[2]]] # NaN}

ReadingAt(frame, direction, indicator, c) ==
    frame.rows[c[1]][INDICATOR_FIELDS[direction][indicator][c[2]]][1]

\* C6: for an enabled indicator total_count is the number of non-missing
\* values over all rows of all its mapped fields present in the dataset
\* (both layers pooled) and qualified_count the number of those values
\* within the one configured min/max, the same bounds for both layers.
C6_PooledCounts ==
    (call.op = "analyze_single_indicator" /\ CallStd.enabled) =>
        LET cells == Readings(df, call.direction, call.indicator)
            inside == {c \in cells :
                         LET v == ReadingAt(df, call.direction, call.indicator, c)
                         IN  /\ (CallStd.min = None \/ v >= CallStd.min[1])
                             /\ (CallStd.max = None \/ v <= CallStd.max[1])}
        IN  /\ ~Raised(call.ret)
            /\ call.ret.total_count = Cardinality(cells)
            /\ call.ret.qualified_count = Cardinality(inside)

\* a two-layer indicator was analysed over a dataset with readings in both
\* layers and a missing reading, some inside and some outside the bounds
C6_Witness ==
    /\ call.op = "analyze_single_indicator"
    /\ CallStd.enabled
    /\ Len(INDICATOR_FIELDS[call.direction][call.indicator]) = 2
    /\ \E c1, c2 \in Readings(df, call.direction, call.indicator) : c1[2] = 1 /\ c2[2] = 2
    /\ Cardinality(Readings(df, call.direction, call.indicator)) < 2 * Len(df.rows)
    /\ call.ret.qualified_count >= 1
    /\ call.ret.qualified_count < call.ret.total_count

(* -------------------------------- C5 ---------------------------------- *)

\* the key is configured and enabled
IsEnabled(stds, k) ==
    /\ HasKey(stds, k[1])
    /\ HasKey(Get(stds, k[1]), k[2])
    /\ Get(Get(stds, k[1]), k[2]).enabled

\* the key is configured and disabled
IsDisabled(stds, k) ==
    /\ HasKey(stds, k[1])
    /\ HasKey(Get(stds, k[1]), k[2])
    /\ ~Get(Get(stds, k[1]), k[2]).enabled

\* the standards with the min and max of key k replaced
WithBounds(stds, k, min_val, max_val) ==
    [g \in DOMAIN stds |->
        IF stds[g][1] # k[1] THEN stds[g]
        ELSE <<stds[g][1],
               [i \in DOMAIN stds[g][2] |->
                   IF stds[g][2][i][1] # k[2] THEN stds[g][2][i]
                   ELSE <<k[2], [stds[g][2][i][2] EXCEPT !.min = min_val,
                                                         !.max = max_val]>>]>>]

\* the fields of key k that are columns of the dataset
FieldsIn(frame, k) ==
    {f \in {INDICATOR_FIELDS[k[1]][k[2]][n] : n \in DOMAIN INDICATOR_FIELDS[k[1]][k[2]]} :
        HasColumn(frame, f)}

\* the dataset with the readings of the given fields replaced
WithReadings(frame, fields, cells) ==
    [frame EXCEPT !.rows =
        [r \in DOMAIN frame.rows |->
            [c \in DOMAIN frame.rows[r] |->
                IF c \in fields THEN cells[r][c] ELSE frame.rows[r][c]]]]

\* C5: a disabled indicator contributes nothing to any report: a second run
\* that differs from the run made only in the readings of a disabled
\* indicator's fields and in that indicator's min/max returns the same rows
\* from analyze_all_indicators and the same totals and rate from
\* calculate_qualification_summary.
C5_DisabledContributesNothing ==
    (call.op \in {"analyze_all_indicators", "calculate_qualification_summary"}) =>
        \A k \in CatalogKeys :
            IsDisabled(standards, k) =>
                \A min_val \in Opt(0..MaxBound), max_val \in Opt(0..MaxBound) :
                    \A cells \in [DOMAIN df.rows -> [FieldsIn(df, k) -> Opt(0..MaxValAll)]] :
                        LET df2 == WithReadings(df, FieldsIn(df, k), cells)
                            standards2 == WithBounds(standards, k, min_val, max_val)
                        IN  IF call.op = "analyze_all_indicators"
                            THEN analyze_all_indicators(df2, standards2) = call.ret
                            ELSE calculate_qualification_summary(df2, standards2) = call.ret

\* the summary was computed while a disabled indicator has readings that
\* break its bounds and an enabled one has readings too
C5_Witness ==
    /\ call.op = "calculate_qualification_summary"
    /\ call.ret.total_measurements > 0
    /\ \E k \in CatalogKeys :
          /\ IsDisabled(standards, k)
          /\ HasAbnormalReading(df, k[1], k[2], Get(Get(standards, k[1]), k[2]).min,
                                Get(Get(standards, k[1]), k[2]).max)

(* -------------------------------- C7 ---------------------------------- *)

\* the sum of one column over the rows of a report
RECURSIVE ColumnSum(_, _)
ColumnSum(rows, column) ==
    IF rows = <<>> THEN 0 ELSE Head(rows)[column] + ColumnSum(Tail(rows), column)

\* C7: calculate_qualification_summary equals the pooled sum of
\* analyze_all_indicators: total_measurements, total_qualified and
\* total_abnormal are the sums of the total, qualified and abnormal columns
\* over the rows analyze_all_indicators returns for the same inputs.
C7_SummaryIsSumOfRows ==
    (call.op = "calculate_qualification_summary" /\ ~Raised(call.ret)) =>
        LET report == analyze_all_indicators(df, standards)
        IN  /\ ~Raised(report)
            /\ call.ret.total_measurements = ColumnSum(report.rows, "zong_celiang_cishu")
            /\ call.ret.total_qualified = ColumnSum(report.rows, "hege_cishu")
            /\ call.ret.total_abnormal = ColumnSum(report.rows, "yichang_cishu")

\* the summary was computed over a report with an entry row and a
\* temperature row that both have measurements, some of them abnormal
C7_Witness ==
    /\ call.op = "calculate_qualification_summary"
    /\ ~Raised(call.ret)
    /\ call.ret.total_abnormal > 0 /\ call.ret.total_qualified > 0
    /\ LET rows == analyze_all_indicators(df, standards).rows
       IN  \E i, j \in DOMAIN rows :
               /\ rows[i].fangxiang = "ruchi" /\ rows[i].zong_celiang_cishu > 0
               /\ rows[j].fangxiang = "wendu" /\ rows[j].zong_celiang_cishu > 0

(* -------------------------------- C8 ---------------------------------- *)

Abs(x) == IF x < 0 THEN -x ELSE x

\* C8: overall_qualification_rate is total_qualified / total_measurements
\* * 100 rounded to 2 decimals when total_measurements > 0 (the rate, in
\* hundredths, is within half a hundredth of the exact ratio of the summed
\* counts) and 0.0 otherwise; totals 30 and 23 (indicators 10/8 and 20/15)
\* give 76.67.
C8_PooledRate ==
    /\ (call.op = "calculate_qualification_summary" /\ ~Raised(call.ret)) =>
           LET tm == call.ret.total_measurements
               tq == call.ret.total_qualified
               rate == call.ret.overall_qualification_rate
           IN  IF tm > 0 THEN 2 * Abs(rate * tm - 10000 * tq) <= tm
               ELSE rate = 0
    /\ overall_qualification_rate(8 + 15, 10 + 20) = 7667

\* the summary was computed over a report in which exactly two rows have
\* measurements, and the mean of their two rates is not the overall rate
C8_Witness ==
    /\ call.op = "calculate_qualification_summary"
    /\ ~Raised(call.ret)
    /\ LET rows == analyze_all_indicators(df, standards).rows
           measured == {n \in DOMAIN rows : rows[n].zong_celiang_cishu > 0}
       IN  \E i, j \in measured :
               /\ i # j /\ measured = {i, j}
               /\ rows[i].hegelv + rows[j].hegelv # 2 * call.ret.overall_qualification_rate

(* -------------------------------- C9 ---------------------------------- *)

\* the 13 entries of the catalog in report order: key and the labels of
\* its row
CatalogOrder ==
    << <<"entry", "moisture", "ruchi", "shuifen">>,
       <<"entry", "alcohol", "ruchi", "jiufen">>,
       <<"entry", "acidity", "ruchi", "suandu">>,
       <<"entry", "starch", "ruchi", "dianfen">>,
       <<"entry", "sugar", "ruchi", "huanyuantang">>,
       <<"exit", "moisture", "chuchi", "shuifen">>,
       <<"exit", "alcohol", "chuchi", "jiufen">>,
       <<"exit", "acidity", "chuchi", "suandu">>,
       <<"exit", "starch", "chuchi", "dianfen">>,
       <<"exit", "sugar", "chuchi", "huanyuantang">>,
       <<"temperature", "grains_entry_temp", "wendu", "ruchi wendu">>,
       <<"temperature", "temp_rise_range", "wendu", "shengwen fudu">>,
       <<"temperature", "distillation_temp", "wendu", "liujiu wendu">> >>

\* the labels of the rows of a report, in order
RowLabels(report) ==
    [n \in DOMAIN report.rows |-> <<report.rows[n].fangxiang, report.rows[n].zhibiao>>]

\* the labels of the enabled entries of the catalog order
EnabledLabels(stds) ==
    LET enabled == SelectSeq(CatalogOrder, LAMBDA e : IsEnabled(stds, <<e[1], e[2]>>))
    IN  [n \in DOMAIN enabled |-> <<enabled[n][3], enabled[n][4]>>]

\* the standards with the key order of the mapping and of every group
\* reversed
ReversedKeys(stds) ==
    Reverse([g \in DOMAIN stds |-> <<stds[g][1], Reverse(stds[g][2])>>])

\* the dataset with its columns in reverse order
ReversedColumns(frame) == [frame EXCEPT !.columns = Reverse(frame.columns)]

\* C9: the rows of analyze_all_indicators are the subsequence of the
\* 13-entry catalog order (entry, exit, temperature) made of the enabled
\* indicators, and the result does not change with the key order of the
\* standards mapping or the column order of the dataset.
C9_CatalogOrder ==
    (call.op = "analyze_all_indicators" /\ ~Raised(call.ret)) =>
        /\ RowLabels(call.ret) = EnabledLabels(standards)
        /\ analyze_all_indicators(ReversedColumns(df), ReversedKeys(standards)) = call.ret

\* a report of at least 12 rows that ends with a temperature row was
\* built from a standards mapping whose first key is the temperature group
C9_Witness ==
    /\ call.op = "analyze_all_indicators"
    /\ ~Raised(call.ret)
    /\ Len(call.ret.rows) >= 12
    /\ call.ret.rows[Len(call.ret.rows)].fangxiang = "wendu"
    /\ standards[1][1] = "temperature"

(* -------------------------------- C10 --------------------------------- *)

\* C10: analyze_all_indicators emits exactly one row per enabled indicator
\* and none for a disabled one, whatever the dataset holds (an enabled
\* indicator without data gets a row of zero counts); with no indicator
\* enabled the result is the empty report, not an error.
C10_OneRowPerEnabled ==
    (call.op = "analyze_all_indicators") =>
        /\ ~Raised(call.ret)
        /\ \A n \in DOMAIN CatalogOrder :
              LET e == CatalogOrder[n]
                  hits == {m \in DOMAIN call.ret.rows :
                              /\ call.ret.rows[m].fangxiang = e[3]
                              /\ call.ret.rows[m].zhibiao = e[4]}
              IN  /\ Cardinality(hits) = (IF IsEnabled(standards, <<e[1], e[2]>>) THEN 1 ELSE 0)
                  /\ \A m \in hits :
                        FieldsIn(df, <<e[1], e[2]>>) = {} =>
                            /\ call.ret.rows[m].zong_celiang_cishu = 0
                            /\ call.ret.rows[m].hege_cishu = 0
                            /\ call.ret.rows[m].yichang_cishu = 0
                            /\ call.ret.rows[m].hegelv = 0
        /\ Len(call.ret.rows) = Cardinality({k \in CatalogKeys : IsEnabled(standards, k)})
        /\ (\A k \in CatalogKeys : ~IsEnabled(standards, k)) => call.ret = EmptyDf

\* an enabled indicator without a column in the dataset has its row of
\* zeros in a report built while a disabled indicator has readings
C10_Witness ==
    /\ call.op = "analyze_all_indicators"
    /\ ~Raised(call.ret)
    /\ \E m \in DOMAIN call.ret.rows :
          /\ call.ret.rows[m].fangxiang = "chuchi"
          /\ call.ret.rows[m].zong_celiang_cishu = 0
    /\ \E k \in CatalogKeys : IsDisabled(standards, k) /\ Readings(df, k[1], k[2]) # {}

(* -------------------------------- C11 --------------------------------- *)

\* a present reading outside the configured bounds
Fails(value, min_val, max_val) ==
    /\ value # NaN
    /\ \/ (min_val # None /\ value[1] < min_val[1])
       \/ (max_val # None /\ value[1] > max_val[1])

\* the positions of the rows of the dataset in which a field of the key,
\* present in the dataset, holds a reading outside the bounds
FailingRows(frame, direction, indicator, min_val, max_val) ==
    {r \in DOMAIN frame.rows :
        \E f \in DOMAIN INDICATOR_FIELDS[direction][indicator] :
            /\ HasColumn(frame, INDICATOR_FIELDS[direction][indicator][f])
            /\ Fails(frame.rows[r][INDICATOR_FIELDS[direction][indicator][f]],
                     min_val, max_val)}

\* C11: get_abnormal_records returns a row exactly when at least one mapped
\* field present in the dataset holds a value failing the range check; each
\* such row appears exactly once and no other row appears.
C11_ExactlyFailingRows ==
    (call.op = "get_abnormal_records" /\ CallStd.enabled) =>
        LET bad == FailingRows(df, call.direction, call.indicator, CallStd.min, CallStd.max)
        IN  /\ ~Raised(call.ret)
            /\ Labels(call.ret.index) = {df.index[r] : r \in bad}
            /\ Len(call.ret.index) = Cardinality(bad)
            /\ Len(call.ret.rows) = Cardinality(bad)

\* the records of entry moisture were asked of a dataset with a row whose
\* two layers both fail, and a row of which only one layer fails while the
\* other qualifies; both came back, once each
C11_Witness ==
    /\ call.op = "get_abnormal_records" /\ CallStd.enabled
    /\ call.direction = "entry" /\ call.indicator = "moisture"
    /\ HasColumn(df, "entry_moisture_upper") /\ HasColumn(df, "entry_moisture_lower")
    /\ \E r \in DOMAIN df.rows :
          /\ Fails(df.rows[r]["entry_moisture_upper"], CallStd.min, CallStd.max)
          /\ Fails(df.rows[r]["entry_moisture_lower"], CallStd.min, CallStd.max)
    /\ \E r \in DOMAIN df.rows :
          /\ df.rows[r]["entry_moisture_upper"] # NaN
          /\ ~Fails(df.rows[r]["entry_moisture_upper"], CallStd.min, CallStd.max)
          /\ Fails(df.rows[r]["entry_moisture_lower"], CallStd.min, CallStd.max)
    /\ ~Raised(call.ret) /\ Len(call.ret.rows) = 2

(* -------------------------------- C12 --------------------------------- *)

\* the position in the dataset of the row with the given label
PositionOf(frame, label) == CHOOSE r \in DOMAIN frame.index : frame.index[r] = label

\* C12: the rows get_abnormal_records returns keep the relative order they
\* have in the input dataset, for every input dataset, one whose rows were
\* filtered or reordered before included; nothing is resorted.
C12_InputOrderKept ==
    (call.op = "get_abnormal_records" /\ ~Raised(call.ret)) =>
        /\ Labels(call.ret.index) \subseteq Labels(df.index)
        /\ \A m \in DOMAIN call.ret.index :
              /\ \A c \in DOMAIN call.ret.rows[m] :
                    call.ret.rows[m][c] = df.rows[PositionOf(df, call.ret.index[m])][c]
              /\ \A k \in DOMAIN call.ret.index :
                    m < k => PositionOf(df, call.ret.index[m]) < PositionOf(df, call.ret.index[k])

\* two rows came back from a dataset whose labels are not in ascending
\* order, the first of them a label that a filter left behind
C12_Witness ==
    /\ call.op = "get_abnormal_records" /\ ~Raised(call.ret)
    /\ Len(df.index) = 2 /\ df.index[1] > 1 /\ df.index[1] > df.index[2]
    /\ call.ret.index = df.index

(* -------------------------------- C13 --------------------------------- *)

\* the cells <<row, field>> of the key's fields present in the dataset
Cells(frame, direction, indicator) ==
    {c \in (DOMAIN frame.rows) \X
            {INDICATOR_FIELDS[direction][indicator][f] :
                 f \in DOMAIN INDICATOR_FIELDS[direction][indicator]} :
        HasColumn(frame, c[2])}

\* the row at position r holds no reading of the key at all
AllMissing(frame, direction, indicator, r) ==
    \A c \in Cells(frame, direction, indicator) : c[1] = r => frame.rows[r][c[2]] = NaN

\* C13: absence never counts as an anomaly: a missing reading is counted
\* neither in total_count nor in qualified_count nor in abnormal_count of
\* analyze_single_indicator, and a row whose mapped fields are all missing
\* is never returned by get_abnormal_records, whatever bounds are configured.
C13_AbsenceIsNoAnomaly ==
    /\ (call.op = "analyze_single_indicator" /\ CallStd.enabled) =>
          LET cells == Cells(df, call.direction, call.indicator)
              missing == {c \in cells : df.rows[c[1]][c[2]] = NaN}
              failing == {c \in cells : Fails(df.rows[c[1]][c[2]], CallStd.min, CallStd.max)}
          IN  /\ ~Raised(call.ret)
              /\ call.ret.total_count = Cardinality(cells \ missing)
              /\ call.ret.abnormal_count = Cardinality(failing)
              /\ call.ret.qualified_count = Cardinality((cells \ missing) \ failing)
    /\ (call.op = "get_abnormal_records" /\ ~Raised(call.ret)) =>
          \A r \in DOMAIN df.rows :
              AllMissing(df, call.direction, call.indicator, r) =>
                  df.index[r] \notin Labels(call.ret.index)

\* the records of an enabled key were asked under bounds that no number
\* satisfies (min > max); the dataset has a row without any reading, which
\* stayed out, and a row with a reading, which came back
C13_Witness ==
    /\ call.op = "get_abnormal_records" /\ CallStd.enabled
    /\ CallStd.min # None /\ CallStd.max # None /\ CallStd.min[1] > CallStd.max[1]
    /\ Cells(df, call.direction, call.indicator) # {}
    /\ \E r \in DOMAIN df.rows : AllMissing(df, call.direction, call.indicator, r)
    /\ ~Raised(call.ret) /\ Len(call.ret.rows) = 1 /\ Len(df.rows) = 2

(* -------------------------------- C14 --------------------------------- *)

\* C14: a request for a <<group, indicator>> pair outside the catalog fails
\* with an error in analyze_single_indicator and in get_abnormal_records;
\* it never returns a zeroed result, also when the standards mapping holds
\* an entry for the unknown key, enabled or disabled.
C14_UnknownKeyRaises ==
    ( /\ call.op \in {"analyze_single_indicator", "get_abnormal_records"}
      /\ <<call.direction, call.indicator>> \notin CatalogKeys ) =>
        Raised(call.ret)

(* -------------------------------- C15 --------------------------------- *)

\* C15: when no standards configuration is available, load_process_standards
\* signals it with a distinct absent result (not a default or an empty
\* configuration), and the analysis page then stops before it calls
\* calculate_qualification_summary, analyze_all_indicators or
\* get_abnormal_records.
C15_AbsentStopsPage ==
    /\ [][(page.pc = "start" /\ page'.pc # "start" /\ config_file.state # "saved") =>
             (page'.loaded = "none" /\ page'.pc = "stopped" /\ page'.calls = <<>>)]_vars
    /\ [](page.pc = "stopped" => (page.loaded = "none" /\ page.calls = <<>>))
    /\ [](page.loaded = "none" => (page.pc = "stopped" /\ page.calls = <<>>))
    /\ [][page.pc = "stopped" => (page'.pc \in {"stopped", "start"} /\ page'.calls = <<>>)]_vars

\* the page met a file it could not parse and stopped without a call
C15_Witness ==
    /\ config_file = BadFile
    /\ page.pc = "stopped" /\ page.loaded = "none" /\ page.calls = <<>>

(* -------------------------------- C20 --------------------------------- *)

\* what the call computes from the dataset and the given standards
Computed(c, frame, stds) ==
    IF c.op = "calculate_qualification_summary"
    THEN c.ret = calculate_qualification_summary(frame, stds)
    ELSE IF c.op = "analyze_all_indicators"
    THEN c.ret = analyze_all_indicators(frame, stds)
    ELSE \E k \in CatalogKeys : c.ret = get_abnormal_records(frame, k[1], k[2], stds)

\* C20: within one analysis request the standards configuration is read
\* once, and that snapshot is what calculate_qualification_summary,
\* analyze_all_indicators and get_abnormal_records all receive; a save of
\* the file by the settings page between these calls does not change what
\* any of the three computes in that request.
C20_OneSnapshotPerRequest ==
    /\ [](\A n \in DOMAIN page.calls :
             /\ page.calls[n].standards = standards
             /\ Computed(page.calls[n], df, standards))
    /\ [][standards' # standards => (page.pc = "start" \/ page'.pc = "start")]_vars
    /\ [][config_file' # config_file => UNCHANGED <<df, standards, call, page>>]_vars

\* the three calls of a request were made, the file was saved with another
\* configuration after the request had read it, and the records returned
\* are not those the saved configuration gives
C20_Witness ==
    /\ page.pc = "done" /\ Len(page.calls) = 3
    /\ config_file.state = "saved" /\ config_file.data # standards
    /\ page.calls[3].op = "get_abnormal_records"
    /\ page.calls[3].ret # get_abnormal_records(df, call.direction, call.indicator,
                                                config_file.data)
    /\ page.calls[1].ret # calculate_qualification_summary(df, config_file.data)

(* -------------------------------- C16 --------------------------------- *)

\* the present readings of the key in the dataset, as cells
PresentCells(frame, direction, indicator) ==
    {c \in Cells(frame, direction, indicator) : frame.rows[c[1]][c[2]] # NaN}

\* C16: when the pooled sample of an enabled indicator is empty (the
\* dataset has no row, or none of the mapped fields, or only missing
\* readings in them), analyze_single_indicator returns enabled = true, the
\* three counts 0, the rate 0.0 and the configured min and max; it does not
\* raise and does not divide by zero.
C16_EmptySample ==
    ( /\ call.op = "analyze_single_indicator" /\ CallStd.enabled
      /\ PresentCells(df, call.direction, call.indicator) = {} ) =>
        call.ret = [enabled |-> TRUE, total_count |-> 0, qualified_count |-> 0,
                    abnormal_count |-> 0, qualification_rate |-> Zero,
                    min_standard |-> CallStd.min, max_standard |-> CallStd.max]

\* an enabled indicator with both bounds configured was analysed over a
\* dataset that has rows and the mapped fields, all readings missing
C16_Witness ==
    /\ call.op = "analyze_single_indicator" /\ CallStd.enabled
    /\ CallStd.min # None /\ CallStd.max # None
    /\ Cells(df, call.direction, call.indicator) # {}
    /\ PresentCells(df, call.direction, call.indicator) = {}
    /\ ~Raised(call.ret) /\ call.ret.total_count = 0

(* -------------------------------- C17 --------------------------------- *)

\* the dataset with one more column, which holds no reading
WithEmptyColumn(frame, field) ==
    [columns |-> Append(frame.columns, field),
     index |-> frame.index,
     rows |-> [r \in DOMAIN frame.rows |->
                 [c \in (DOMAIN frame.rows[r]) \cup {field} |->
                     IF c = field THEN NaN ELSE frame.rows[r][c]]]]

\* the mapped fields of the last call that the dataset lacks
AbsentFields ==
    {INDICATOR_FIELDS[call.direction][call.indicator][f] :
         f \in DOMAIN INDICATOR_FIELDS[call.direction][call.indicator]}
    \ {df.columns[i] : i \in DOMAIN df.columns}

\* C17: when one of the two mapped fields of an indicator is absent from
\* the dataset, analyze_single_indicator and get_abnormal_records behave as
\* if that field contributed no samples: the result is the one computed
\* from the remaining field alone, and no error is raised.
C17_AbsentFieldIsNoSample ==
    ( /\ call.op \in {"analyze_single_indicator", "get_abnormal_records"}
      /\ CallStd.enabled
      /\ Len(INDICATOR_FIELDS[call.direction][call.indicator]) = 2
      /\ Cardinality(AbsentFields) = 1 ) =>
        LET absent == CHOOSE f \in AbsentFields : TRUE
            remaining == CHOOSE f \in {df.columns[i] : i \in DOMAIN df.columns} :
                             f \in {INDICATOR_FIELDS[call.direction][call.indicator][1],
                                     INDICATOR_FIELDS[call.direction][call.indicator][2]}
            std == CallStd
        IN  /\ ~Raised(call.ret)
            /\ call.op = "analyze_single_indicator" =>
                  /\ call.ret = analyze_single_indicator(WithEmptyColumn(df, absent),
                                     call.direction, call.indicator, standards)
                  /\ call.ret.total_count =
                         Cardinality({r \in DOMAIN df.rows : df.rows[r][remaining] # NaN})
                  /\ call.ret.abnormal_count =
                         Cardinality({r \in DOMAIN df.rows :
                                        Fails(df.rows[r][remaining], std.min, std.max)})
            /\ call.op = "get_abnormal_records" =>
                  /\ call.ret.index =
                         get_abnormal_records(WithEmptyColumn(df, absent),
                             call.direction, call.indicator, standards).index
                  /\ Labels(call.ret.index) =
                         {df.index[r] : r \in {q \in DOMAIN df.rows :
                                                 Fails(df.rows[q][remaining], std.min, std.max)}}
                  /\ \A i \in DOMAIN call.ret.columns : call.ret.columns[i] # absent

\* entry moisture was analysed over a dataset that has the lower layer
\* only, with a qualified and an abnormal reading in it
C17_Witness ==
    /\ call.op = "analyze_single_indicator" /\ CallStd.enabled
    /\ call.direction = "entry" /\ call.indicator = "moisture"
    /\ AbsentFields = {"entry_moisture_upper"}
    /\ ~Raised(call.ret)
    /\ call.ret.qualified_count = 1 /\ call.ret.abnormal_count = 1

(* -------------------------------- C18 --------------------------------- *)

Range(seq) == {seq[i] : i \in DOMAIN seq}

\* the mapped fields of a key, as a set
FieldSet(direction, indicator) == Range(INDICATOR_FIELDS[direction][indicator])

\* C21: the result of get_abnormal_records carries only the identifying
\* columns (production_date, round_number, pit_no, workshop, team_name)
\* that exist in the dataset, followed by the mapped fields of the
\* indicator that exist in the dataset; no other column of the input row
\* is returned, and the values in those columns are the input row's.
C21_KeptColumns ==
    (call.op = "get_abnormal_records" /\ CallStd.enabled) =>
        LET ids == Range(ID_COLUMNS)
            fields == FieldSet(call.direction, call.indicator)
            cols == call.ret.columns
        IN  /\ ~Raised(call.ret)
            /\ Range(cols) = (ids \cup fields) \cap Range(df.columns)
            /\ \A i, j \in DOMAIN cols : cols[i] = cols[j] => i = j
            /\ \A i, j \in DOMAIN cols :
                  (cols[i] \in fields /\ cols[j] \in ids) => j < i
            /\ \A m \in DOMAIN call.ret.rows :
                  /\ DOMAIN call.ret.rows[m] = Range(cols)
                  /\ \E r \in DOMAIN df.rows :
                        /\ df.index[r] = call.ret.index[m]
                        /\ \A c \in Range(cols) : call.ret.rows[m][c] = df.rows[r][c]

\* records came back from a dataset that has a column which is neither
\* identifying nor mapped, and whose mapped field stands before pit_no
C21_Witness ==
    /\ call.op = "get_abnormal_records" /\ CallStd.enabled
    /\ ~Raised(call.ret) /\ Len(call.ret.rows) >= 1
    /\ \/ /\ HasColumn(df, "map_id")
          /\ call.ret.columns = <<"pit_no", "entry_moisture_upper", "entry_moisture_lower">>
       \/ /\ df.columns = <<"entry_moisture_lower", "pit_no">>
          /\ call.ret.columns = <<"pit_no", "entry_moisture_lower">>

(* -------------------------------- C22 --------------------------------- *)

\* a configured bound as the report prints it
Printed(bound) == ToString(bound[1] \div 10) \o "." \o ToString(bound[1] % 10) \o "0"

\* C22: the standard-range text of a report row is chosen by which bounds
\* are present: both give the "min ~ max" form, min alone the ">= min"
\* form, max alone the "<= max" form, neither the no-limit sentinel; a
\* bound equal to 0 counts as present.
C22_RangeText ==
    (call.op = "analyze_all_indicators" /\ ~Raised(call.ret)) =>
        \A n \in DOMAIN call.ret.rows :
            \E e \in Range(CatalogOrder) :
                /\ call.ret.rows[n].fangxiang = e[3]
                /\ call.ret.rows[n].zhibiao = e[4]
                /\ LET std == Get(Get(standards, e[1]), e[2])
                       text == call.ret.rows[n].biaozhun_fanwei
                   IN  /\ (std.min # None /\ std.max # None) =>
                              text = Printed(std.min) \o " ~ " \o Printed(std.max)
                       /\ (std.min # None /\ std.max = None) =>
                              text = ">= " \o Printed(std.min)
                       /\ (std.min = None /\ std.max # None) =>
                              text = "<= " \o Printed(std.max)
                       /\ (std.min = None /\ std.max = None) => text = "wu xianzhi"

\* a report whose rows show the three forms with a bound of 0
C22_Witness ==
    /\ call.op = "analyze_all_indicators" /\ ~Raised(call.ret)
    /\ \E n \in DOMAIN call.ret.rows : call.ret.rows[n].biaozhun_fanwei = "0.00 ~ 0.00"
    /\ \E n \in DOMAIN call.ret.rows : call.ret.rows[n].biaozhun_fanwei = ">= 0.00"
    /\ \E n \in DOMAIN call.ret.rows : call.ret.rows[n].biaozhun_fanwei = "<= 0.00"

(* -------------------------------- C23 --------------------------------- *)

\* the standards mapping has an entry for the key
HasEntry(stds, k) == HasKey(stds, k[1]) /\ HasKey(Get(stds, k[1]), k[2])

\* C23: no partial result is produced: when analyze_all_indicators or
\* calculate_qualification_summary meets a standards configuration that
\* lacks an entry for a catalog indicator of the entry or exit group, the
\* call signals an error and returns neither a partial table nor partial
\* totals.
C23_NoPartialResult ==
    ( /\ call.op \in {"analyze_all_indicators", "calculate_qualification_summary"}
      /\ \E k \in EntryExitKeys : ~HasEntry(standards, k) ) =>
        /\ Raised(call.ret)
        /\ DOMAIN call.ret = {"raised"}

\* the report was asked with standards that lack only the last indicator
\* of the exit group, every other indicator enabled, over a dataset with a
\* reading: nine indicators had been analysed when the lookup failed
C23_Witness ==
    /\ call.op = "analyze_all_indicators"
    /\ ~HasEntry(standards, <<"exit", "sugar">>)
    /\ \A k \in EntryExitKeys \ {<<"exit", "sugar">>} :
          HasEntry(standards, k) /\ IsEnabled(standards, k)
    /\ \E r \in DOMAIN df.rows : df.rows[r]["entry_moisture_upper"] # NaN
    /\ Raised(call.ret)

(* -------------------------------- C24 --------------------------------- *)

\* C24: for every dataset and standards the result of
\* calculate_qualification_summary has
\* total_qualified + total_abnormal = total_measurements, and its
\* overall_qualification_rate lies in [0, 100] (in hundredths: 0..10000).
C24_SummaryTotals ==
    (call.op = "calculate_qualification_summary" /\ ~Raised(call.ret)) =>
        /\ call.ret.total_qualified + call.ret.total_abnormal = call.ret.total_measurements
        /\ call.ret.overall_qualification_rate >= 0
        /\ call.ret.overall_qualification_rate <= 100 * 100

\* a summary over entry readings that are abnormal and a temperature
\* reading that is qualified
C24_Witness ==
    /\ call.op = "calculate_qualification_summary" /\ ~Raised(call.ret)
    /\ call.ret.total_abnormal >= 1 /\ call.ret.total_qualified >= 1
    /\ call.ret.overall_qualification_rate > 0
    /\ call.ret.overall_qualification_rate < 100 * 100
    /\ IsEnabled(standards, <<"temperature", "grains_entry_temp">>)
    /\ \E r \in DOMAIN df.rows : df.rows[r]["grains_entry_temp"] # NaN

(* -------------------------------- C25 --------------------------------- *)

\* the number of mapped fields of the last call's key that the dataset has
PresentFieldCount ==
    Cardinality(FieldSet(call.direction, call.indicator) \cap Range(df.columns))

\* C25: the extractor and the analyzer agree on every enabled indicator:
\* get_abnormal_records returns no row exactly when analyze_single_indicator
\* reports abnormal_count = 0, and otherwise the number R of returned rows
\* satisfies R <= abnormal_count <= R times the number of mapped fields
\* present in the dataset.
C25_ExtractorAgreesWithAnalyzer ==
    ( /\ call.op \in {"analyze_single_indicator", "get_abnormal_records"}
      /\ CallStd.enabled ) =>
        LET analysis == analyze_single_indicator(df, call.direction, call.indicator, standards)
            records == get_abnormal_records(df, call.direction, call.indicator, standards)
        IN  /\ ~Raised(analysis) /\ ~Raised(records)
            /\ (Len(records.rows) = 0) <=> (analysis.abnormal_count = 0)
            /\ Len(records.rows) <= analysis.abnormal_count
            /\ analysis.abnormal_count <= Len(records.rows) * PresentFieldCount

\* the records of entry moisture: two rows came back, one of them with
\* both layers abnormal, so that the analyzer counts three
C25_Witness ==
    /\ call.op = "get_abnormal_records" /\ CallStd.enabled
    /\ ~Raised(call.ret) /\ Len(call.ret.rows) = 2
    /\ PresentFieldCount = 2
    /\ analyze_single_indicator(df, call.direction, call.indicator,
                                 standards).abnormal_count = 3

(* -------------------------------- C26 --------------------------------- *)

\* the present readings of the enabled entry and exit indicators
EntryExitReadings(frame, stds) ==
    UNION {PresentCells(frame, k[1], k[2]) : k \in {e \in EntryExitKeys : IsEnabled(stds, e)}}

\* C26: when the standards configuration has no "temperature" group,
\* analyze_all_indicators and calculate_qualification_summary complete
\* without error and report the entry and exit groups only (the
\* temperature group contributes no row and no count), and the analysis
\* page offers no temperature indicator for the abnormal-record query, so
\* that get_abnormal_records is never called for the missing group.
C26_NoTemperatureGroup ==
    (page.pc # "none" /\ page.loaded = "mapping" /\ ~HasKey(standards, "temperature")) =>
        /\ \A n \in DOMAIN page.calls :
              LET c == page.calls[n]
              IN  /\ ~Raised(c.ret)
                  /\ c.op = "analyze_all_indicators" =>
                        /\ \A m \in DOMAIN c.ret.rows : c.ret.rows[m].fangxiang # "wendu"
                        /\ Len(c.ret.rows) =
                               Cardinality({k \in EntryExitKeys : IsEnabled(standards, k)})
                  /\ c.op = "calculate_qualification_summary" =>
                        c.ret.total_measurements =
                            Cardinality(EntryExitReadings(df, standards))
        /\ enabled_indicators("temperature", standards) = <<>>
        /\ call.op = "get_abnormal_records" => call.direction # "temperature"

\* a request that made its three calls with standards without the
\* temperature group, over a dataset that holds a temperature reading and
\* an entry reading
C26_Witness ==
    /\ page.pc = "done" /\ Len(page.calls) = 3
    /\ ~HasKey(standards, "temperature")
    /\ \E r \in DOMAIN df.rows :
          df.rows[r]["grains_entry_temp"] # NaN /\ df.rows[r]["entry_moisture_upper"] # NaN
    /\ page.calls[1].ret.total_measurements = 1
    /\ page.calls[2].ret.rows # <<>>
    /\ call.op = "get_abnormal_records"

(* -------------------------------- C27 --------------------------------- *)

\* C27: in every run of the analysis page get_abnormal_records is called
\* only with a <<group, indicator>> pair that belongs to the catalog of the
\* selected group and is enabled in the loaded standards; the reverse
\* lookup from the displayed indicator name returns the key the name was
\* built from.
C27_QueryOnlyEnabledCatalogKeys ==
    /\ (page.pc # "none" /\ call.op = "get_abnormal_records") =>
          /\ <<call.direction, call.indicator>> \in CatalogKeys
          /\ call.indicator \in DOMAIN INDICATOR_FIELDS[call.direction]
          /\ IsEnabled(standards, <<call.direction, call.indicator>>)
          /\ page.calls[Len(page.calls)].standards = standards
          /\ ~Raised(call.ret)
    /\ \A k \in DOMAIN INDICATOR_NAMES_CN : indicator_key_of(INDICATOR_NAMES_CN[k]) = k
    /\ \A k \in CatalogKeys : k[2] \in DOMAIN INDICATOR_NAMES_CN

\* the records of the second temperature indicator were queried at the
\* end of a request
C27_Witness ==
    /\ page.pc = "done" /\ Len(page.calls) = 3
    /\ call.op = "get_abnormal_records"
    /\ call.direction = "temperature" /\ call.indicator = "temp_rise_range"
    /\ page.calls[3].op = "get_abnormal_records"

(* -------------------------------- C28 --------------------------------- *)

\* C28: the standards file changes only in a save step of the settings
\* page, which writes the session copy and leaves it as it is; a step that
\* changes the session copy (first load, an edit of the enabled flag or of
\* a bound, reset to default) leaves the file alone; and the analysis page
\* starts a request with the mapping the file holds at that moment, or
\* stops with nothing loaded when no readable file was saved.
C28_OnlySaveWritesFile ==
    /\ [][config_file' # config_file =>
            /\ session # NoSession
            /\ session' = session
            /\ config_file' = FileOf(session.standards)]_vars
    /\ [][session' # session => config_file' = config_file]_vars
    /\ [][(page.pc = "start" /\ page'.pc # "start") =>
            IF config_file.state = "saved"
            THEN /\ page'.loaded = "mapping"
                 /\ standards' = config_file.data
            ELSE /\ page'.loaded = "none"
                 /\ page'.pc = "stopped"]_vars
    /\ [][page'.calls # page.calls /\ page'.calls # <<>> =>
            page'.calls[Len(page'.calls)].standards = standards]_vars

\* the defaults were saved, the session copy was edited afterwards, and a
\* request computed its summary with the saved defaults
C28_Witness ==
    /\ config_file = FileOf(DEFAULT_STANDARDS)
    /\ session # NoSession
    /\ session.standards # DEFAULT_STANDARDS
    /\ page.calls # <<>>
    /\ page.calls[1].op = "calculate_qualification_summary"
    /\ page.calls[1].standards = DEFAULT_STANDARDS

(* -------------------------------- C29 --------------------------------- *)

\* C29: the mapping validate_filter_conditions returns never holds both a
\* non-empty months and a non-empty rounds filter; when both were given,
\* rounds is kept and months is dropped; every key other than months is
\* returned with the value it had, and months too unless both were given;
\* and the call leaves the mapping it was given as it was.
C29_MonthsRoundsExclusive ==
    /\ [](page.pc = "validated" =>
            LET filters == page.filters
                validated_filters == call.ret
            IN  /\ ~(Given(validated_filters, "months") /\ Given(validated_filters, "rounds"))
                /\ (Given(filters, "months") /\ Given(filters, "rounds")) =>
                       /\ ~HasKey(validated_filters, "months")
                       /\ Get(validated_filters, "rounds") = Get(filters, "rounds")
                /\ ~(Given(filters, "months") /\ Given(filters, "rounds")) =>
                       validated_filters = filters
                /\ \A n \in DOMAIN FILTER_KEYS :
                       FILTER_KEYS[n] # "months" =>
                          /\ HasKey(validated_filters, FILTER_KEYS[n])
                                 <=> HasKey(filters, FILTER_KEYS[n])
                          /\ HasKey(filters, FILTER_KEYS[n]) =>
                                 Get(validated_filters, FILTER_KEYS[n])
                                    = Get(filters, FILTER_KEYS[n]))
    /\ [][page'.pc = "validated" => page'.filters = page.filters]_vars

\* months, rounds and workshops were all given: the result holds rounds
\* and workshops, the caller's mapping still holds the three
C29_Witness ==
    /\ page.pc = "validated"
    /\ page.filters = <<<<"months", <<1>>>>, <<"rounds", <<1, 2>>>>, <<"workshops", <<1>>>>>>
    /\ call.ret = <<<<"rounds", <<1, 2>>>>, <<"workshops", <<1>>>>>>

====
